---- MODULE Spec2Model ----
(***************************************************************************)
(* Model of the quiz grading / statistics core and of the quiz router of   *)
(* the student onboarding backend (backend/app/agents/quiz_grader.py,      *)
(* backend/app/agents/email_notifier.py, backend/app/routers/quizzes.py).  *)
(*                                                                         *)
(* Python floats are modelled as exact rationals [num, den] (den > 0, in   *)
(* lowest terms); ints are unbounded as in Python.  A Python exception is  *)
(* modelled as an outcome record whose exc field names the exception.      *)
(***************************************************************************)
EXTENDS Integers, Sequences, FiniteSets, TLC

\* ------------------------------------------------------------------------
\* Bounds of the model
\* ------------------------------------------------------------------------
MaxQuestions == 2

MaxResults == 2

\* quiz results stored in one run of the service
MaxSubmissions == 2

\* ------------------------------------------------------------------------
\* Python values
\* ------------------------------------------------------------------------
None == "None"

NoExc == "none"

Abs(n) == IF n < 0 THEN 0 - n ELSE n

RECURSIVE Gcd(_, _)
Gcd(a, b) == IF b = 0 THEN a ELSE Gcd(b, a % b)

\* the rational n/d in lowest terms with a positive denominator (d # 0)
Rat(n, d) ==
    LET s == IF d < 0 THEN 0 - 1 ELSE 1
        g == Gcd(Abs(n), Abs(d))
    IN  [num |-> (s * n) \div g, den |-> (s * d) \div g]

RatInt(n) == [num |-> n, den |-> 1]

RatAdd(a, b) == Rat(a.num * b.den + b.num * a.den, a.den * b.den)

RatLe(a, b) == a.num * b.den <= b.num * a.den

RatLt(a, b) == a.num * b.den < b.num * a.den

\* Python's a / b on numbers: ZeroDivisionError when b is 0
PyDiv(a, b) ==
    IF b.num = 0
    THEN [exc |-> "ZeroDivisionError", value |-> RatInt(0)]
    ELSE [exc |-> NoExc, value |-> Rat(a.num * b.den, a.den * b.num)]

\* dict.get(key): None when the key is absent
DictGet(d, k) == IF k \in DOMAIN d THEN d[k] ELSE None

\* f"{p:.1f}": p rounded to one decimal (ties to even), as a number of tenths
FormatOneDecimal(p) ==
    LET n == 10 * p.num
        q == n \div p.den
        r == n % p.den
    IN  IF 2 * r < p.den THEN q
        ELSE IF 2 * r > p.den THEN q + 1
        ELSE IF q % 2 = 0 THEN q ELSE q + 1

\* ------------------------------------------------------------------------
\* Data (app/models/schemas.py)
\* ------------------------------------------------------------------------
OptionIds == {"A", "B"}

Blank == ""

\* Question.points is an unconstrained int
PointValues == {0 - 1, 0, 1, 2}

\* a key of the answer mapping that is the id of no question
UnrelatedKey == 0

QuestionIds == 1..MaxQuestions

Question(id, correct, pts) ==
    [id |-> id, correct_answer_id |-> correct, points |-> pts]

QuizResponse(quiz_id, student_id, answers, submitted_at) ==
    [quiz_id |-> quiz_id, student_id |-> student_id, answers |-> answers,
     submitted_at |-> submitted_at]

QuizResult(id, quiz_id, student_id, student_name, answers, score, total_points, percentage, submitted_at) ==
    [id |-> id, quiz_id |-> quiz_id, student_id |-> student_id,
     student_name |-> student_name, answers |-> answers, score |-> score,
     total_points |-> total_points, percentage |-> percentage,
     submitted_at |-> submitted_at, graded_at |-> "now"]

\* ------------------------------------------------------------------------
\* QuizGraderAgent.grade_quiz
\* ------------------------------------------------------------------------
\* sum(question.points for question in quiz_questions)
RECURSIVE SumPoints(_)
SumPoints(quiz_questions) ==
    IF quiz_questions = <<>> THEN 0
    ELSE Head(quiz_questions).points + SumPoints(Tail(quiz_questions))

\* the loop "for question in quiz_questions" that accumulates score
RECURSIVE ScoreLoopBroken(_, _, _)
ScoreLoopBroken(quiz_questions, answers, score) ==
    IF quiz_questions = <<>> THEN score
    ELSE LET question == Head(quiz_questions)
             student_answer == DictGet(answers, question.id)
         IN  IF student_answer = question.correct_answer_id
             THEN ScoreLoopBroken(Tail(quiz_questions), answers, score + question.points)
             ELSE IF student_answer = None
                  THEN ScoreLoopBroken(Tail(quiz_questions), answers, score)
                  ELSE score

RECURSIVE ScoreLoop(_, _, _)
ScoreLoop(quiz_questions, answers, score) ==
    IF quiz_questions = <<>> THEN score
    ELSE LET question == Head(quiz_questions)
             student_answer == DictGet(answers, question.id)
         IN  IF student_answer = question.correct_answer_id
             THEN ScoreLoop(Tail(quiz_questions), answers, score + question.points)
             ELSE ScoreLoop(Tail(quiz_questions), answers, score)

\* (score / total_points * 100) if total_points > 0 else 0
PercentageUnguarded(score, total_points) ==
    LET d == PyDiv(RatInt(score), RatInt(total_points))
    IN  IF d.exc # NoExc THEN d
        ELSE [exc |-> NoExc, value |-> Rat(d.value.num * 100, d.value.den)]

Percentage(score, total_points) ==
    IF total_points > 0
    THEN LET d == PyDiv(RatInt(score), RatInt(total_points))
         IN  [exc |-> NoExc, value |-> Rat(d.value.num * 100, d.value.den)]
    ELSE [exc |-> NoExc, value |-> RatInt(0)]

\* the steps by which grade_quiz obtains the AI commentary
CommentarySteps == {"Task", "Crew", "kickoff"}

AICommentary == [kind |-> "ai", text |-> <<>>]

\* f"Quiz completed with a score of {score}/{total_points} ({percentage:.1f}%). ..."
FallbackFeedback(score, total_points, percentage) ==
    [kind |-> "fallback",
     text |-> <<score, total_points, FormatOneDecimal(percentage)>>]

NoResult == [id |-> 0 - 1]

\* grade_quiz(quiz_response, quiz_questions); ai_failure is the step of the
\* commentary collaborator that raises ("none": the collaborator answers)
\* and new_id the value uuid4 returns
grade_quiz(quiz_response, quiz_questions, ai_failure, new_id) ==
    LET total_points == SumPoints(quiz_questions)
        score == ScoreLoop(quiz_questions, quiz_response.answers, 0)
        pct == Percentage(score, total_points)
        quiz_result ==
            QuizResult(new_id, quiz_response.quiz_id, quiz_response.student_id,
                       "", quiz_response.answers, score, total_points, pct.value,
                       IF quiz_response.submitted_at # None
                       THEN quiz_response.submitted_at ELSE "now")
    IN  IF pct.exc # NoExc
        THEN [exc |-> pct.exc, quiz_result |-> NoResult, feedback |-> AICommentary]
        ELSE IF ai_failure \in {"Task", "Crew"}
        THEN [exc |-> "Exception", quiz_result |-> NoResult, feedback |-> AICommentary]
        ELSE [exc |-> NoExc, quiz_result |-> quiz_result,
              feedback |-> IF ai_failure = "kickoff"
                           THEN FallbackFeedback(score, total_points, pct.value)
                           ELSE AICommentary]

\* ------------------------------------------------------------------------
\* QuizGraderAgent.generate_class_statistics
\* ------------------------------------------------------------------------
\* the dict {} returned for an empty collection
EmptyDict == <<>>

\* [result.percentage for result in quiz_results]
Scores(quiz_results) == [i \in 1..Len(quiz_results) |-> quiz_results[i].percentage]

RECURSIVE SumScores(_)
SumScores(scores) ==
    IF scores = <<>> THEN RatInt(0) ELSE RatAdd(Head(scores), SumScores(Tail(scores)))

\* max(scores) / min(scores) of a non-empty list
RECURSIVE MaxScore(_)
MaxScore(scores) ==
    IF Len(scores) = 1 THEN Head(scores)
    ELSE LET m == MaxScore(Tail(scores))
         IN  IF RatLt(m, Head(scores)) THEN Head(scores) ELSE m

RECURSIVE MinScore(_)
MinScore(scores) ==
    IF Len(scores) = 1 THEN Head(scores)
    ELSE LET m == MinScore(Tail(scores))
         IN  IF RatLt(Head(scores), m) THEN Head(scores) ELSE m

\* len([s for s in scores if lo <= s <= hi])
CountBetween(scores, lo, hi) ==
    Cardinality({i \in 1..Len(scores) :
                    RatLe(RatInt(lo), scores[i]) /\ RatLe(scores[i], RatInt(hi))})

\* len([s for s in scores if s >= 60])
CountPassedStrict(scores) ==
    Cardinality({i \in 1..Len(scores) : RatLt(RatInt(60), scores[i])})

CountPassed(scores) ==
    Cardinality({i \in 1..Len(scores) : RatLe(RatInt(60), scores[i])})

GradeDistribution(scores) ==
    [k \in {"A (90-100)", "B (80-89)", "C (70-79)", "D (60-69)", "F (0-59)"} |->
        CASE k = "A (90-100)" -> CountBetween(scores, 90, 100)
          [] k = "B (80-89)"  -> CountBetween(scores, 80, 89)
          [] k = "C (70-79)"  -> CountBetween(scores, 70, 79)
          [] k = "D (60-69)"  -> CountBetween(scores, 60, 69)
          [] k = "F (0-59)"   -> CountBetween(scores, 0, 59)]

\* the statistics dict built from a list of scores
StatisticsDict(quiz_results, scores) ==
    LET avg == PyDiv(SumScores(scores), RatInt(Len(scores)))
        rate == PyDiv(RatInt(CountPassed(scores)), RatInt(Len(scores)))
    IN  IF avg.exc # NoExc
        THEN [exc |-> avg.exc, value |-> EmptyDict]
        ELSE [exc |-> NoExc,
              value |-> [total_students |-> Len(quiz_results),
                         average_score |-> avg.value,
                         highest_score |-> MaxScore(scores),
                         lowest_score |-> MinScore(scores),
                         pass_rate |-> Rat(rate.value.num * 100, rate.value.den),
                         grade_distribution |-> GradeDistribution(scores)]]

generate_class_statistics_unguarded(quiz_results) ==
    StatisticsDict(quiz_results, Scores(quiz_results))

generate_class_statistics(quiz_results) ==
    IF quiz_results = <<>>
    THEN [exc |-> NoExc, value |-> EmptyDict]
    ELSE StatisticsDict(quiz_results, Scores(quiz_results))

\* ------------------------------------------------------------------------
\* EmailNotifierAgent._generate_quiz_result_email
\* ------------------------------------------------------------------------
\* "Determine performance level": the if / elif chain on quiz_result.percentage
PerformanceLevelStrict(quiz_result) ==
    IF RatLt(RatInt(90), quiz_result.percentage)
    THEN [performance |-> "Excellent", color |-> "#28a745"]
    ELSE IF RatLt(RatInt(80), quiz_result.percentage)
    THEN [performance |-> "Good", color |-> "#17a2b8"]
    ELSE IF RatLt(RatInt(70), quiz_result.percentage)
    THEN [performance |-> "Satisfactory", color |-> "#ffc107"]
    ELSE [performance |-> "Needs Improvement", color |-> "#dc3545"]

PerformanceLevel(quiz_result) ==
    IF RatLe(RatInt(90), quiz_result.percentage)
    THEN [performance |-> "Excellent", color |-> "#28a745"]
    ELSE IF RatLe(RatInt(80), quiz_result.percentage)
    THEN [performance |-> "Good", color |-> "#17a2b8"]
    ELSE IF RatLe(RatInt(70), quiz_result.percentage)
    THEN [performance |-> "Satisfactory", color |-> "#ffc107"]
    ELSE [performance |-> "Needs Improvement", color |-> "#dc3545"]

\* the values substituted into the html and the text template, in order
generate_quiz_result_email(quiz_result, feedback) ==
    LET level == PerformanceLevel(quiz_result)
        shown == <<quiz_result.score, quiz_result.total_points,
                   FormatOneDecimal(quiz_result.percentage)>>
    IN  [html |-> [student_name |-> quiz_result.student_name, color |-> level.color,
                   score |-> shown, performance |-> level.performance,
                   feedback |-> feedback],
         text |-> [student_name |-> quiz_result.student_name, color |-> "",
                   score |-> shown, performance |-> level.performance,
                   feedback |-> feedback]]

\* ------------------------------------------------------------------------
\* State
\* ------------------------------------------------------------------------
VARIABLES
    arg_questions,   \* grade_quiz: the quiz_questions argument
    arg_response,    \* grade_quiz: the quiz_response argument
    ai_failure,      \* grade_quiz: the commentary step that raised
    grade_out,       \* grade_quiz: what the call returned or raised
    arg_results,     \* generate_class_statistics: the quiz_results argument
    statistics,      \* generate_class_statistics: what the call returned
    email_arg,       \* _generate_quiz_result_email: the quiz_result argument
    email_content,   \* _generate_quiz_result_email: what the call returned
    quizzes,         \* collection 'quizzes': document id -> quiz document
    students,        \* collection 'students': document id -> student document
    quiz_results,    \* collection 'quiz_results': document id -> Result
    next_uuid,       \* per collection, the next document id uuid4 returns
    background_tasks,\* background tasks added and not yet run
    response,        \* the status code of the response to the last request
    requests,        \* submit_quiz calls in progress: position and local variables
    frames,          \* the score, total_points and loop position of each grade_quiz call
    video_submissions, \* collection 'video_submissions': document id -> submission
    analysis_tasks,  \* analyze_video_submission tasks by submission id: their position
    reply,           \* the last call of a students or videos handler and its response
    detached_tasks,  \* tasks added to a BackgroundTasks object that no response carries
    formatted,       \* the notification formatter calls made: arguments and content
    kickoffs,        \* the crew.kickoff() calls the formatter has made
    quiz_submissions,\* collection 'quiz_submissions': document id -> document
    users_collection,\* collection 'users': document id -> user document
    dev_users_db,    \* auth.dev_users_db: email -> user document
    db_available,    \* whether get_firestore_db() returns a client (TRUE) or None
    registered,      \* the <<email, password>> pairs of the register calls that succeeded
    auth_reply       \* the last call of an auth handler and its response

gradeVars == <<arg_questions, arg_response, ai_failure, grade_out>>

statsVars == <<arg_results, statistics, email_arg, email_content>>

sysVars == <<quizzes, students, quiz_results, next_uuid, background_tasks, response>>

concVars == <<requests, frames>>

videoVars == <<video_submissions, analysis_tasks, reply, detached_tasks>>

notifyVars == <<formatted, kickoffs>>

recentVars == <<quiz_submissions>>

authVars == <<users_collection, dev_users_db, db_available, registered, auth_reply>>

extVars == <<concVars, videoVars, notifyVars, recentVars, authVars>>

vars == <<gradeVars, statsVars, sysVars, extVars>>

NotCalled == "not called"

GradeNotCalled == [exc |-> NotCalled, quiz_result |-> NoResult, feedback |-> AICommentary]

StatsNotCalled == [exc |-> NotCalled, value |-> EmptyDict]

NoEmail == [html |-> <<>>, text |-> <<>>]

GradeIdle ==
    /\ arg_questions = <<>>
    /\ arg_response = QuizResponse(1, 1, <<>>, None)
    /\ ai_failure = "none"
    /\ grade_out = GradeNotCalled

StatsIdle ==
    /\ arg_results = <<>>
    /\ statistics = StatsNotCalled
    /\ email_arg = NoResult
    /\ email_content = NoEmail

NoResponse == [status |-> 0]

\* empty collections, nothing scheduled
SysIdle ==
    /\ quizzes = <<>>
    /\ students = <<>>
    /\ quiz_results = <<>>
    /\ next_uuid = [students |-> 1, quizzes |-> 1, quiz_results |-> 1]
    /\ background_tasks = {}
    /\ response = NoResponse

\* no submit_quiz call in progress
ConcIdle ==
    /\ requests = <<>>
    /\ frames = <<>>

NoReply == [op |-> "none", caller |-> "none", target |-> 0, status |-> 0, body |-> None]

\* no video submission, no analysis task, no call answered
VideoIdle ==
    /\ video_submissions = <<>>
    /\ analysis_tasks = <<>>
    /\ reply = NoReply
    /\ detached_tasks = {}

\* the formatter not called
NotifyIdle ==
    /\ formatted = <<>>
    /\ kickoffs = 0

\* no handler writes the collection 'quiz_submissions'
RecentIdle == quiz_submissions = <<>>

NoAuthReply == [op |-> "none", email |-> "none", password |-> "none", status |-> 0,
                body |-> [detail |-> "none"]]

\* no user registered, the document store reachable
AuthIdle ==
    /\ users_collection = <<>>
    /\ dev_users_db = <<>>
    /\ db_available = TRUE
    /\ registered = {}
    /\ auth_reply = NoAuthReply

ExtIdle == ConcIdle /\ VideoIdle /\ NotifyIdle /\ RecentIdle /\ AuthIdle

\* ------------------------------------------------------------------------
\* Grading of one submission: grade_quiz applied to bounded inputs
\* ------------------------------------------------------------------------
AnswerValues == OptionIds \cup {Blank}

\* answer mappings: any subset of the question ids and the unrelated key
AnswerMaps == UNION {[D -> AnswerValues] : D \in SUBSET (QuestionIds \cup {UnrelatedKey})}

\* question lists of up to MaxQuestions questions with distinct ids
QuestionLists ==
    UNION {{[i \in 1..n |-> Question(i, f[i][1], f[i][2])] :
                f \in [1..n -> OptionIds \X PointValues]} : n \in 0..MaxQuestions}

InitGrade ==
    /\ arg_questions \in QuestionLists
    /\ arg_response \in {QuizResponse(1, 1, a, None) : a \in AnswerMaps}
    /\ ai_failure = "none"
    /\ grade_out = GradeNotCalled
    /\ StatsIdle
    /\ SysIdle
    /\ ExtIdle

CallGradeQuiz ==
    /\ grade_out = GradeNotCalled
    /\ \E f \in CommentarySteps \cup {"none"} :
          /\ ai_failure' = f
          /\ grade_out' = grade_quiz(arg_response, arg_questions, f, 1)
    /\ UNCHANGED <<arg_questions, arg_response, statsVars, sysVars, extVars>>

NextGrade == CallGradeQuiz

SpecGrade == InitGrade /\ [][NextGrade]_vars

\* ------------------------------------------------------------------------
\* Operations on stored Results: generate_class_statistics and
\* _generate_quiz_result_email applied to bounded inputs
\* ------------------------------------------------------------------------
\* (score, total_points) of the Results the inputs are built from
ScorePairs ==
    {<<0, 5>>, <<1, 5>>, <<2, 5>>, <<3, 5>>, <<4, 5>>, <<5, 5>>, <<8, 10>>,
     <<7, 10>>, <<9, 10>>, <<119, 200>>, <<139, 200>>, <<159, 200>>, <<179, 200>>}

ResultOf(id, sp) ==
    QuizResult(id, 1, id, "Ana", <<>>, sp[1], sp[2], Percentage(sp[1], sp[2]).value, "now")

\* the five Results of the concrete scenario: percentages 100, 80, 60, 40, 20
ScenarioResults ==
    <<ResultOf(1, <<5, 5>>), ResultOf(2, <<4, 5>>), ResultOf(3, <<3, 5>>),
      ResultOf(4, <<2, 5>>), ResultOf(5, <<1, 5>>)>>

ResultLists ==
    {ScenarioResults} \cup
    UNION {{[i \in 1..n |-> ResultOf(i, f[i])] : f \in [1..n -> ScorePairs]} :
              n \in 0..MaxResults}

InitStats ==
    /\ arg_results \in ResultLists
    /\ statistics = StatsNotCalled
    /\ email_arg = NoResult
    /\ email_content = NoEmail
    /\ GradeIdle
    /\ SysIdle
    /\ ExtIdle

CallGenerateClassStatistics ==
    /\ statistics = StatsNotCalled
    /\ statistics' = generate_class_statistics(arg_results)
    /\ UNCHANGED <<arg_results, email_arg, email_content, gradeVars, sysVars, extVars>>

CallGenerateQuizResultEmail ==
    /\ email_content = NoEmail
    /\ \E i \in 1..Len(arg_results) :
          /\ email_arg' = arg_results[i]
          /\ email_content' = generate_quiz_result_email(arg_results[i], AICommentary)
    /\ UNCHANGED <<arg_results, statistics, gradeVars, sysVars, extVars>>

NextStats == CallGenerateClassStatistics \/ CallGenerateQuizResultEmail

SpecStats == InitStats /\ [][NextStats]_vars

\* ------------------------------------------------------------------------
\* The service: routers/quizzes.py and routers/students.py over the
\* document store
\* ------------------------------------------------------------------------
\* documents of collection 'users': email -> role
users ==
    [e \in {"admin@school.edu", "ana@school.edu", "bob@school.edu"} |->
        IF e = "admin@school.edu" THEN "admin" ELSE "student"]

\* the authenticated callers (verify_token returned their email)
Callers == DOMAIN users

StudentEmails == {"ana@school.edu"}

NameOf(email) == IF email = "ana@school.edu" THEN "Ana" ELSE "Bob"

\* QuestionOption(id=..., text=..., is_correct=...)
QuestionOption(id, is_correct) == [id |-> id, is_correct |-> is_correct]

\* json.loads(str(result)): the question dicts of the AI's answer; the first
\* list follows the format the prompt asks for (its first question leaves
\* "points" out), the second does not
AIOutputs ==
    {<<[options |-> <<QuestionOption("A", TRUE), QuestionOption("B", FALSE)>>,
        correct_answer_id |-> "A"],
       [options |-> <<QuestionOption("A", FALSE), QuestionOption("B", TRUE)>>,
        correct_answer_id |-> "B", points |-> 1]>>,
     <<[options |-> <<QuestionOption("A", TRUE), QuestionOption("B", TRUE)>>,
        correct_answer_id |-> "A", points |-> 2],
       [options |-> <<QuestionOption("A", FALSE), QuestionOption("B", TRUE)>>,
        correct_answer_id |-> "A", points |-> 0 - 1]>>}

\* dict.get(key, default)
DictGetDefault(d, k, default) == IF k \in DOMAIN d THEN d[k] ELSE default

\* QuizGeneratorAgent._parse_questions: every value is taken as the AI gave it
parse_questions(questions_data) ==
    [i \in 1..Len(questions_data) |->
        LET q_data == questions_data[i]
        IN  [id |-> i,
             options |-> [j \in 1..Len(q_data.options) |->
                             QuestionOption(q_data.options[j].id,
                                            q_data.options[j].is_correct)],
             correct_answer_id |-> q_data.correct_answer_id,
             points |-> DictGetDefault(q_data, "points", 1)]]

\* question lists parsed from the AI's JSON output
GeneratedByAI == {parse_questions(questions_data) : questions_data \in AIOutputs}

\* answer mappings of the submissions
SubmittedAnswers == {<<"A">>, <<"A", "B">>}

\* an id that names no document
UnknownId == 0

\* the values uuid4 hands out, in order and never twice, as the ids of the
\* documents of 'students' and of 'quizzes'
StudentUuids == {1}

QuizUuids == {1}

Put(collection, id, doc) == [x \in (DOMAIN collection) \cup {id} |->
                                IF x = id THEN doc ELSE collection[x]]

Delete(collection, id) == [x \in (DOMAIN collection) \ {id} |-> collection[x]]

HttpResponse(op, code, body) == [status |-> code]

\* where('email', '==', email).limit(1).get()
StudentsByEmail(email) == {id \in DOMAIN students : students[id].email = email}

\* get_current_user_role: the role of the caller's user document
get_current_user_role(current_user_email) == users[current_user_email]

\* QuizGeneratorAgent._get_default_questions
get_default_questions(num_questions) ==
    [i \in 1..num_questions |->
        [id |-> i,
         options |-> <<QuestionOption("A", TRUE), QuestionOption("B", FALSE),
                       QuestionOption("C", FALSE), QuestionOption("D", FALSE)>>,
         correct_answer_id |-> "A", points |-> 1]]

\* the student_doc create_student stores
StudentDoc(student_id, email) ==
    [id |-> student_id, name |-> NameOf(email), email |-> email,
     total_quizzes |-> 0, average_score |-> RatInt(0)]

\* students.create_student
create_student ==
    /\ UNCHANGED <<gradeVars, statsVars, extVars>>
    /\ \E caller \in Callers, email \in StudentEmails :
        IF get_current_user_role(caller) # "admin"
        THEN /\ response' = HttpResponse("create_student", 403, <<>>)
             /\ UNCHANGED <<quizzes, students, quiz_results, next_uuid,
                            background_tasks>>
        ELSE IF StudentsByEmail(email) # {}
        THEN /\ response' = HttpResponse("create_student", 400, <<>>)
             /\ UNCHANGED <<quizzes, students, quiz_results, next_uuid,
                            background_tasks>>
        ELSE LET student_doc == StudentDoc(next_uuid.students, email)
             IN  /\ next_uuid.students \in StudentUuids
                 /\ students' = Put(students, student_doc.id, student_doc)
                 /\ next_uuid' = [next_uuid EXCEPT !.students = @ + 1]
                 /\ response' = HttpResponse("create_student", 200, student_doc)
                 /\ UNCHANGED <<quizzes, quiz_results, background_tasks>>

\* students.delete_student
delete_student ==
    /\ UNCHANGED <<gradeVars, statsVars, extVars>>
    /\ \E caller \in Callers, student_id \in (DOMAIN students) \cup {UnknownId} :
        IF get_current_user_role(caller) # "admin"
        THEN /\ response' = HttpResponse("delete_student", 403, <<>>)
             /\ UNCHANGED <<quizzes, students, quiz_results, next_uuid,
                            background_tasks>>
        ELSE IF student_id \notin DOMAIN students
        THEN /\ response' = HttpResponse("delete_student", 404, <<>>)
             /\ UNCHANGED <<quizzes, students, quiz_results, next_uuid,
                            background_tasks>>
        ELSE /\ students' = Delete(students, student_id)
             /\ response' = HttpResponse("delete_student", 200, <<>>)
             /\ UNCHANGED <<quizzes, quiz_results, next_uuid, background_tasks>>

\* the quiz_doc create_quiz stores
QuizDoc(quiz_id, questions, current_user_email) ==
    [id |-> quiz_id, title |-> "Algebra I", description |-> "Linear equations",
     subject |-> "Math", duration_minutes |-> 30,
     total_questions |-> Len(questions), questions |-> questions,
     status |-> "published", created_by |-> current_user_email,
     updated_at |-> "now", total_points |-> SumPoints(questions)]

\* quizzes.create_quiz called by caller; generated is what
\* QuizGeneratorAgent.generate_quiz does: it raises, returns questions parsed
\* from AI output, or the defaults
create_quiz_as(caller) ==
    /\ UNCHANGED <<gradeVars, statsVars, extVars>>
    /\ IF get_current_user_role(caller) # "admin"
       THEN /\ response' = HttpResponse("create_quiz", 403, <<>>)
            /\ UNCHANGED <<quizzes, students, quiz_results, next_uuid,
                           background_tasks>>
       ELSE \E total_questions \in {2},
               generated \in {[kind |-> "raise", questions |-> <<>>],
                              [kind |-> "default", questions |-> <<>>]}
                             \cup {[kind |-> "ai", questions |-> qs] : qs \in GeneratedByAI} :
        IF generated.kind = "raise"
        THEN /\ response' = HttpResponse("create_quiz", 500, <<>>)
             /\ UNCHANGED <<quizzes, students, quiz_results, next_uuid,
                            background_tasks>>
        ELSE LET questions == IF generated.kind = "default"
                              THEN get_default_questions(total_questions)
                              ELSE generated.questions
                 quiz_doc == QuizDoc(next_uuid.quizzes, questions, caller)
             IN  /\ next_uuid.quizzes \in QuizUuids
                 /\ quizzes' = Put(quizzes, quiz_doc.id, quiz_doc)
                 /\ next_uuid' = [next_uuid EXCEPT !.quizzes = @ + 1]
                 /\ background_tasks' = background_tasks \cup
                       {[fn |-> "send_quiz_notifications", id |-> quiz_doc.id,
                         quiz_result |-> NoResult, feedback |-> AICommentary]}
                 /\ response' = HttpResponse("create_quiz", 200, quiz_doc)
                 /\ UNCHANGED <<students, quiz_results>>

create_quiz == \E caller \in Callers : create_quiz_as(caller)

\* the request bodies of update_quiz: the fields of QuizUpdate that are set
QuizUpdates == {[title |-> "Algebra II", duration_minutes |-> 45]}

\* update_data = quiz_update.dict(exclude_unset=True) with updated_at added
UpdateDataUnsetIncluded(quiz_update) ==
    [k \in {"title", "description", "duration_minutes", "updated_at"} |->
        IF k = "updated_at" THEN "now" ELSE DictGet(quiz_update, k)]

UpdateData(quiz_update) ==
    [k \in (DOMAIN quiz_update) \cup {"updated_at"} |->
        IF k = "updated_at" THEN "now" ELSE quiz_update[k]]

\* DocumentReference.update: the given fields are written, the others kept
FirestoreUpdate(doc, update_data) ==
    [k \in (DOMAIN doc) \cup (DOMAIN update_data) |->
        IF k \in DOMAIN update_data THEN update_data[k] ELSE doc[k]]

\* quizzes.update_quiz called by caller
update_quiz_as(caller, quiz_id, quiz_update) ==
    /\ UNCHANGED <<gradeVars, statsVars, extVars>>
    /\ IF get_current_user_role(caller) # "admin"
       THEN /\ response' = HttpResponse("update_quiz", 403, <<>>)
            /\ UNCHANGED <<quizzes, students, quiz_results, next_uuid,
                           background_tasks>>
       ELSE IF quiz_id \notin DOMAIN quizzes
       THEN /\ response' = HttpResponse("update_quiz", 404, <<>>)
            /\ UNCHANGED <<quizzes, students, quiz_results, next_uuid,
                           background_tasks>>
       ELSE /\ quizzes' = [quizzes EXCEPT ![quiz_id] =
                              FirestoreUpdate(@, UpdateData(quiz_update))]
            /\ response' = HttpResponse("update_quiz", 200, quizzes'[quiz_id])
            /\ UNCHANGED <<students, quiz_results, next_uuid, background_tasks>>

update_quiz ==
    \E caller \in Callers, quiz_id \in (DOMAIN quizzes) \cup {UnknownId},
       quiz_update \in QuizUpdates :
        update_quiz_as(caller, quiz_id, quiz_update)

\* quizzes.delete_quiz called by caller
delete_quiz_unchecked(caller, quiz_id) ==
    /\ UNCHANGED <<gradeVars, statsVars, extVars>>
    /\ IF quiz_id \notin DOMAIN quizzes
       THEN /\ response' = HttpResponse("delete_quiz", 404, <<>>)
            /\ UNCHANGED <<quizzes, students, quiz_results, next_uuid,
                           background_tasks>>
       ELSE /\ quizzes' = Delete(quizzes, quiz_id)
            /\ response' = HttpResponse("delete_quiz", 200, <<>>)
            /\ UNCHANGED <<students, quiz_results, next_uuid, background_tasks>>

delete_quiz_as(caller, quiz_id) ==
    /\ UNCHANGED <<gradeVars, statsVars, extVars>>
    /\ IF get_current_user_role(caller) # "admin"
       THEN /\ response' = HttpResponse("delete_quiz", 403, <<>>)
            /\ UNCHANGED <<quizzes, students, quiz_results, next_uuid,
                           background_tasks>>
       ELSE IF quiz_id \notin DOMAIN quizzes
       THEN /\ response' = HttpResponse("delete_quiz", 404, <<>>)
            /\ UNCHANGED <<quizzes, students, quiz_results, next_uuid,
                           background_tasks>>
       ELSE /\ quizzes' = Delete(quizzes, quiz_id)
            /\ response' = HttpResponse("delete_quiz", 200, <<>>)
            /\ UNCHANGED <<students, quiz_results, next_uuid, background_tasks>>

delete_quiz ==
    \E caller \in Callers, quiz_id \in (DOMAIN quizzes) \cup {UnknownId} :
        delete_quiz_as(caller, quiz_id)

\* update_student_stats with the old average weighted by the new count
update_student_stats_overweighted(student_doc, score) ==
    LET total_quizzes == student_doc.total_quizzes + 1
        current_avg == student_doc.average_score
        weighted == Rat(current_avg.num * total_quizzes, current_avg.den)
        new_avg == PyDiv(RatAdd(weighted, score), RatInt(total_quizzes)).value
    IN  [student_doc EXCEPT !.total_quizzes = total_quizzes,
                            !.average_score = new_avg]

\* quizzes.update_student_stats: the student document after the update
update_student_stats(student_doc, score) ==
    LET total_quizzes == student_doc.total_quizzes + 1
        current_avg == student_doc.average_score
        weighted == Rat(current_avg.num * (total_quizzes - 1), current_avg.den)
        new_avg == PyDiv(RatAdd(weighted, score), RatInt(total_quizzes)).value
    IN  [student_doc EXCEPT !.total_quizzes = total_quizzes,
                            !.average_score = new_avg]

\* db.collection('quiz_results').document(quiz_result.id).set(...)
SaveQuizResultOverwriting(results, quiz_result) ==
    LET same == {id \in DOMAIN results :
                    /\ results[id].quiz_id = quiz_result.quiz_id
                    /\ results[id].student_id = quiz_result.student_id}
    IN  IF same = {} THEN Put(results, quiz_result.id, quiz_result)
        ELSE [id \in DOMAIN results |->
                 IF id \in same THEN [quiz_result EXCEPT !.id = id] ELSE results[id]]

SaveQuizResult(results, quiz_result) == Put(results, quiz_result.id, quiz_result)

\* quizzes.submit_quiz; failure names the step of the commentary collaborator
\* that raises: "init" is QuizGraderAgent(), the others are steps of grade_quiz
submit_quiz ==
    /\ UNCHANGED <<gradeVars, statsVars, extVars>>
    /\ \E caller \in Callers, quiz_id \in (DOMAIN quizzes) \cup {UnknownId} :
        IF quiz_id \notin DOMAIN quizzes
        THEN /\ response' = HttpResponse("submit_quiz", 404, <<>>)
             /\ UNCHANGED <<quizzes, students, quiz_results, next_uuid,
                            background_tasks>>
        ELSE IF StudentsByEmail(caller) = {}
        THEN /\ response' = HttpResponse("submit_quiz", 404, <<>>)
             /\ UNCHANGED <<quizzes, students, quiz_results, next_uuid,
                            background_tasks>>
        ELSE \E body_quiz_id \in (DOMAIN quizzes) \cup {UnknownId},
                body_student_id \in (DOMAIN students) \cup {UnknownId},
                answers \in SubmittedAnswers,
                failure \in CommentarySteps \cup {"none", "init"} :
             LET student_data == students[CHOOSE id \in StudentsByEmail(caller) : TRUE]
                 quiz_response == QuizResponse(body_quiz_id, student_data.id, answers, "now")
                 graded == grade_quiz(quiz_response, quizzes[quiz_id].questions,
                                      failure, next_uuid.quiz_results)
                 quiz_result == [graded.quiz_result EXCEPT !.student_name = student_data.name]
             IN  IF failure = "init" \/ graded.exc # NoExc
                 THEN /\ response' = HttpResponse("submit_quiz", 500, <<>>)
                      /\ UNCHANGED <<quizzes, students, quiz_results, next_uuid,
                                     background_tasks>>
                 ELSE /\ next_uuid.quiz_results <= MaxSubmissions
                      /\ quiz_results' = SaveQuizResult(quiz_results, quiz_result)
                      /\ next_uuid' = [next_uuid EXCEPT !.quiz_results = @ + 1]
                      /\ students' = [students EXCEPT ![student_data.id] =
                                         update_student_stats(@, quiz_result.percentage)]
                      /\ background_tasks' = background_tasks \cup
                            {[fn |-> "send_quiz_result_notification",
                              id |-> quiz_result.id,
                              quiz_result |-> quiz_result,
                              feedback |-> graded.feedback]}
                      /\ response' = HttpResponse("submit_quiz", 200, quiz_result)
                      /\ UNCHANGED quizzes

\* the documents of a query in the order of their ids
RECURSIVE DocsInOrder(_, _)
DocsInOrder(collection, ids) ==
    IF ids = {} THEN <<>>
    ELSE LET m == CHOOSE x \in ids : \A y \in ids : x <= y
         IN  <<collection[m]>> \o DocsInOrder(collection, ids \ {m})

\* quizzes.get_quiz_statistics
get_quiz_statistics ==
    /\ UNCHANGED <<gradeVars, statsVars, extVars>>
    /\ \E caller \in Callers, quiz_id \in (DOMAIN quizzes) \cup {UnknownId} :
        /\ IF get_current_user_role(caller) # "admin"
           THEN response' = HttpResponse("get_quiz_statistics", 403, <<>>)
           ELSE LET found == {id \in DOMAIN quiz_results :
                                 quiz_results[id].quiz_id = quiz_id}
                    stat == generate_class_statistics(DocsInOrder(quiz_results, found))
                IN  response' = HttpResponse("get_quiz_statistics",
                                             IF stat.exc = NoExc THEN 200 ELSE 500,
                                             stat.value)
        /\ UNCHANGED <<quizzes, students, quiz_results, next_uuid,
                       background_tasks>>

\* Python strings of two kinds: the text of a uuid4 document id and an
\* email address; a uuid has no "@", so the two are never equal
IdText(id) == [uuid |-> id]

EmailText(email) == [address |-> email]

\* EmailNotifierAgent.send_quiz_result_notification: the Mail handed to the
\* SendGrid client
quiz_result_mail(quiz_result, feedback) ==
    [to_emails |-> IdText(quiz_result.student_id),
     content |-> generate_quiz_result_email(quiz_result, feedback)]

\* a background task runs: send_quiz_notifications and
\* send_quiz_result_notification hand their messages to the email
\* collaborator, whose failures are caught; no collection is written
RunBackgroundTask ==
    /\ UNCHANGED <<gradeVars, statsVars, extVars>>
    /\ \E task \in background_tasks :
        /\ background_tasks' = background_tasks \ {task}
        /\ UNCHANGED <<quizzes, students, quiz_results, next_uuid, response>>

Init == SysIdle /\ GradeIdle /\ StatsIdle /\ ExtIdle

Next ==
    \/ create_student
    \/ delete_student
    \/ create_quiz
    \/ update_quiz
    \/ delete_quiz
    \/ submit_quiz
    \/ get_quiz_statistics
    \/ RunBackgroundTask

Spec == Init /\ [][Next]_vars

\* ------------------------------------------------------------------------
\* Quiz management and submission (the handlers of routers/quizzes.py that
\* write the store) over a store that holds the student record of ana
\* ------------------------------------------------------------------------
InitQuizAdmin ==
    /\ quizzes = <<>>
    /\ students = Put(<<>>, 1, StudentDoc(1, "ana@school.edu"))
    /\ quiz_results = <<>>
    /\ next_uuid = [students |-> 2, quizzes |-> 1, quiz_results |-> 1]
    /\ background_tasks = {}
    /\ response = NoResponse
    /\ GradeIdle
    /\ StatsIdle
    /\ ExtIdle

NextQuizAdmin ==
    \/ create_quiz
    \/ update_quiz
    \/ delete_quiz
    \/ submit_quiz
    \/ RunBackgroundTask

SpecQuizAdmin == InitQuizAdmin /\ [][NextQuizAdmin]_vars

\* ------------------------------------------------------------------------
\* Concurrent submit_quiz calls.  Every call to the document store and every
\* step of grade_quiz is one step; the steps of different calls interleave,
\* as they do when the calls are served by different server processes over
\* the one document store.
\* ------------------------------------------------------------------------
\* the two submit_quiz calls
RequestIds == {1, 2}

\* score, total_points and the loop position are local variables of a
\* grade_quiz call: each call has a frame of its own
FrameShared(request_id) == 1

Frame(request_id) == request_id

NoDoc == [id |-> UnknownId]

\* update_student_stats computes the new count and average from student_data,
\* the document it read, whatever the store holds by the time it writes
StatsSourceTransactional(read_doc, stored_doc) == stored_doc

StatsSource(read_doc, stored_doc) == read_doc

\* what a write to or a read of the document store does
StoreOutcomes == {"ok", "raises"}

NewFrame == [score |-> 0, total_points |-> 0, idx |-> 1]

\* the student_id and submitted_at a request body may carry: the caller's
\* own record id or another id, no time or a time chosen by the client
BodyStudentIds == {1, 2}

BodySubmittedAt == {None, "earlier"}

\* submit_quiz: "Set student information" with the body's student_id kept
with_student_information_of_body(quiz_response, student_data) ==
    [quiz_response EXCEPT !.submitted_at = "now"]

\* submit_quiz: quiz_response.student_id = student_data['id'] and
\* quiz_response.submitted_at = datetime.now()
with_student_information(quiz_response, student_data) ==
    [quiz_response EXCEPT !.student_id = student_data.id,
                          !.submitted_at = "now"]

\* a call of ana for quiz 1 that has not started; quiz_response is the
\* parsed request body
NewRequest(answers, body_quiz_id, body_student_id, body_submitted_at) ==
    [pc |-> "get_quiz", caller |-> "ana@school.edu", quiz_id |-> 1,
     body_quiz_id |-> body_quiz_id, answers |-> answers,
     body_student_id |-> body_student_id,
     body_submitted_at |-> body_submitted_at,
     quiz_response |-> QuizResponse(body_quiz_id, body_student_id, answers,
                                    body_submitted_at),
     quiz_data |-> NoDoc,
     student_data |-> NoDoc, quiz_result |-> NoResult, read_doc |-> NoDoc,
     status |-> 0]

\* the store holds one quiz and the student record of ana
InitConc ==
    /\ \E questions \in GeneratedByAI :
          quizzes = Put(<<>>, 1, QuizDoc(1, questions, "admin@school.edu"))
    /\ students = Put(<<>>, 1, StudentDoc(1, "ana@school.edu"))
    /\ quiz_results = <<>>
    /\ next_uuid = [students |-> 2, quizzes |-> 2, quiz_results |-> 1]
    /\ background_tasks = {}
    /\ response = NoResponse
    /\ requests \in [RequestIds -> {NewRequest(a, b, c, d) :
                                       a \in SubmittedAnswers, b \in {1, UnknownId},
                                       c \in BodyStudentIds, d \in BodySubmittedAt}]
    /\ frames = [r \in RequestIds |-> NewFrame]
    /\ GradeIdle
    /\ StatsIdle
    /\ VideoIdle
    /\ NotifyIdle
    /\ RecentIdle
    /\ AuthIdle

\* the call r moves to position pc with the given locals changed
Goto(r, pc, changed) ==
    requests' = [requests EXCEPT ![r] =
                    [k \in DOMAIN @ |-> IF k = "pc" THEN pc
                                        ELSE IF k \in DOMAIN changed THEN changed[k]
                                        ELSE @[k]]]

\* submit_quiz: quiz_doc = db.collection('quizzes').document(quiz_id).get()
GetQuiz ==
    /\ \E r \in RequestIds :
          /\ requests[r].pc = "get_quiz"
          /\ IF requests[r].quiz_id \notin DOMAIN quizzes
             THEN Goto(r, "done", [status |-> 404])
             ELSE Goto(r, "get_student", [quiz_data |-> quizzes[requests[r].quiz_id]])
    /\ UNCHANGED <<videoVars, notifyVars, recentVars, authVars, gradeVars, statsVars, sysVars, frames>>

\* submit_quiz: the query for the student record of the caller
GetStudent ==
    /\ \E r \in RequestIds :
          /\ requests[r].pc = "get_student"
          /\ IF StudentsByEmail(requests[r].caller) = {}
             THEN Goto(r, "done", [status |-> 404])
             ELSE LET student_data ==
                          students[CHOOSE id \in StudentsByEmail(requests[r].caller) : TRUE]
                  IN  Goto(r, "grade_start",
                           [student_data |-> student_data,
                            quiz_response |->
                                with_student_information(requests[r].quiz_response,
                                                         student_data)])
    /\ UNCHANGED <<videoVars, notifyVars, recentVars, authVars, gradeVars, statsVars, sysVars, frames>>

\* submit_quiz: QuizGraderAgent() ("init" when it raises), then grade_quiz:
\* score = 0 and total_points = sum(...)
GradeStart ==
    /\ \E r \in RequestIds, failure \in {"none", "init"} :
          /\ requests[r].pc = "grade_start"
          /\ IF failure = "init"
             THEN /\ Goto(r, "done", [status |-> 500])
                  /\ UNCHANGED frames
             ELSE /\ frames' = [frames EXCEPT ![Frame(r)] =
                                   [score |-> 0,
                                    total_points |-> SumPoints(requests[r].quiz_data.questions),
                                    idx |-> 1]]
                  /\ Goto(r, "grade_loop", <<>>)
    /\ UNCHANGED <<videoVars, notifyVars, recentVars, authVars, gradeVars, statsVars, sysVars>>

\* grade_quiz: one iteration of "for question in quiz_questions", or its end
GradeLoop ==
    /\ \E r \in RequestIds :
          /\ requests[r].pc = "grade_loop"
          /\ LET frame == frames[Frame(r)]
                 quiz_questions == requests[r].quiz_data.questions
             IN  IF frame.idx <= Len(quiz_questions)
                 THEN LET question == quiz_questions[frame.idx]
                          student_answer == DictGet(requests[r].answers, question.id)
                      IN  /\ frames' = [frames EXCEPT ![Frame(r)] =
                                 [@ EXCEPT !.idx = @ + 1,
                                           !.score = IF student_answer = question.correct_answer_id
                                                     THEN @ + question.points ELSE @]]
                          /\ UNCHANGED requests
                 ELSE /\ Goto(r, "grade_finish", <<>>)
                      /\ UNCHANGED frames
    /\ UNCHANGED <<videoVars, notifyVars, recentVars, authVars, gradeVars, statsVars, sysVars>>

\* grade_quiz: the percentage, the commentary and the QuizResult;
\* submit_quiz: quiz_result.student_name = student_data['name']
GradeFinish ==
    /\ \E r \in RequestIds, failure \in CommentarySteps \cup {"none"} :
          /\ requests[r].pc = "grade_finish"
          /\ LET frame == frames[Frame(r)]
                 quiz_result ==
                     QuizResult(next_uuid.quiz_results, requests[r].quiz_response.quiz_id,
                                requests[r].quiz_response.student_id,
                                requests[r].student_data.name,
                                requests[r].quiz_response.answers,
                                frame.score, frame.total_points,
                                Percentage(frame.score, frame.total_points).value,
                                IF requests[r].quiz_response.submitted_at # None
                                THEN requests[r].quiz_response.submitted_at ELSE "now")
             IN  IF failure \in {"Task", "Crew"}
                 THEN /\ Goto(r, "done", [status |-> 500])
                      /\ UNCHANGED next_uuid
                 ELSE /\ Goto(r, "save_result", [quiz_result |-> quiz_result])
                      /\ next_uuid' = [next_uuid EXCEPT !.quiz_results = @ + 1]
    /\ UNCHANGED <<videoVars, notifyVars, recentVars, authVars, gradeVars, statsVars, quizzes, students, quiz_results,
                   background_tasks, response, frames>>

\* submit_quiz: db.collection('quiz_results').document(quiz_result.id).set(...);
\* store is what the call to the document store does: it is "ok" or it
\* "raises" (the store unreachable, a deadline exceeded), which ends the
\* handler with status 500
SaveResult ==
    /\ \E r \in RequestIds, store \in StoreOutcomes :
          /\ requests[r].pc = "save_result"
          /\ IF store = "raises"
             THEN /\ Goto(r, "done", [status |-> 500])
                  /\ UNCHANGED quiz_results
             ELSE /\ quiz_results' = SaveQuizResult(quiz_results, requests[r].quiz_result)
                  /\ Goto(r, "read_stats", <<>>)
    /\ UNCHANGED <<videoVars, notifyVars, recentVars, authVars, gradeVars, statsVars, quizzes, students, next_uuid,
                   background_tasks, response, frames>>

\* update_student_stats: student_doc = student_ref.get()
ReadStudentStats ==
    /\ \E r \in RequestIds, store \in StoreOutcomes :
          /\ requests[r].pc = "read_stats"
          /\ IF store = "raises"
             THEN Goto(r, "done", [status |-> 500])
             ELSE IF requests[r].student_data.id \in DOMAIN students
             THEN Goto(r, "write_stats",
                       [read_doc |-> students[requests[r].student_data.id]])
             ELSE Goto(r, "respond", <<>>)
    /\ UNCHANGED <<videoVars, notifyVars, recentVars, authVars, gradeVars, statsVars, sysVars, frames>>

\* update_student_stats: student_ref.update({'total_quizzes': ..., 'average_score': ...})
\* with the values computed from the document read before
WriteStudentStats ==
    /\ \E r \in RequestIds, store \in StoreOutcomes :
          /\ requests[r].pc = "write_stats"
          /\ requests[r].student_data.id \in DOMAIN students
          /\ IF store = "raises"
             THEN /\ Goto(r, "done", [status |-> 500])
                  /\ UNCHANGED students
             ELSE /\ LET computed ==
                            update_student_stats(
                                StatsSource(requests[r].read_doc,
                                            students[requests[r].student_data.id]),
                                requests[r].quiz_result.percentage)
                     IN  students' = [students EXCEPT ![requests[r].student_data.id] =
                                        FirestoreUpdate(@,
                                            [total_quizzes |-> computed.total_quizzes,
                                             average_score |-> computed.average_score])]
                  /\ Goto(r, "respond", <<>>)
    /\ UNCHANGED <<videoVars, notifyVars, recentVars, authVars, gradeVars, statsVars, quizzes, quiz_results, next_uuid,
                   background_tasks, response, frames>>

\* submit_quiz: background_tasks.add_task(...) and return quiz_result
Respond ==
    /\ \E r \in RequestIds :
          /\ requests[r].pc = "respond"
          /\ background_tasks' = background_tasks \cup
                {[fn |-> "send_quiz_result_notification",
                  id |-> requests[r].quiz_result.id,
                  quiz_result |-> requests[r].quiz_result,
                  feedback |-> AICommentary]}
          /\ Goto(r, "done", [status |-> 200])
    /\ UNCHANGED <<videoVars, notifyVars, recentVars, authVars, gradeVars, statsVars, quizzes, students, quiz_results,
                   next_uuid, response, frames>>

NextConc ==
    \/ GetQuiz
    \/ GetStudent
    \/ GradeStart
    \/ GradeLoop
    \/ GradeFinish
    \/ SaveResult
    \/ ReadStudentStats
    \/ WriteStudentStats
    \/ Respond

SpecConc == InitConc /\ [][NextConc]_vars

\* ------------------------------------------------------------------------
\* Access to student records, quiz results and video submissions
\* (routers/students.py, routers/videos.py)
\* ------------------------------------------------------------------------
\* the values uuid4 hands out as ids of 'video_submissions' documents
VideoUuids == {1, 2}

\* schemas.VideoStatus
VideoStatus == {"uploaded", "processing", "analyzed"}

\* submit_video: the VideoSubmission stored for a new submission
VideoDoc(submission_id, student_data) ==
    [id |-> submission_id, student_id |-> student_data.id,
     student_name |-> student_data.name, video_url |-> "https://videos/talk",
     title |-> "My talk", status |-> "uploaded", transcription |-> None,
     analysis_summary |-> None, feedback |-> None, analyzed_at |-> None]

\* what VideoAnalyzerAgent.analyze_video returns
AnalysisResult ==
    [transcription |-> "transcript", analysis_summary |-> "summary",
     feedback |-> "well done", analyzed_at |-> "now"]

\* analyze_video_submission: the fields written once the analysis returned
AnalysisUpdateStatusKept(analysis_result) ==
    [transcription |-> analysis_result.transcription,
     analysis_summary |-> analysis_result.analysis_summary,
     feedback |-> analysis_result.feedback,
     analyzed_at |-> analysis_result.analyzed_at]

AnalysisUpdate(analysis_result) ==
    [transcription |-> analysis_result.transcription,
     analysis_summary |-> analysis_result.analysis_summary,
     feedback |-> analysis_result.feedback,
     status |-> "analyzed",
     analyzed_at |-> analysis_result.analyzed_at]

Reply(op, caller, target, code, body) ==
    [op |-> op, caller |-> caller, target |-> target, status |-> code, body |-> body]

\* "not student_docs or student_docs[0].id != student_id", negated
IsAnyStudent(current_user_email, student_id) == StudentsByEmail(current_user_email) # {}

IsOwnStudentId(current_user_email, student_id) ==
    /\ StudentsByEmail(current_user_email) # {}
    /\ (CHOOSE id \in StudentsByEmail(current_user_email) : TRUE) = student_id

\* where('student_id', '==', student_id) on 'quiz_results'
ResultsOfStudent(student_id) ==
    {id \in DOMAIN quiz_results : quiz_results[id].student_id = student_id}

\* students.get_student called by caller
get_student_as(caller, student_id) ==
    /\ UNCHANGED <<gradeVars, statsVars, sysVars, concVars, notifyVars, recentVars, authVars, detached_tasks>>
    /\ UNCHANGED <<video_submissions, analysis_tasks>>
    /\ IF /\ get_current_user_role(caller) = "student"
          /\ ~IsOwnStudentId(caller, student_id)
       THEN reply' = Reply("get_student", caller, student_id, 403, None)
       ELSE IF student_id \notin DOMAIN students
       THEN reply' = Reply("get_student", caller, student_id, 404, None)
       ELSE reply' = Reply("get_student", caller, student_id, 200, students[student_id])

get_student ==
    \E caller \in Callers, student_id \in (DOMAIN students) \cup {UnknownId} :
        get_student_as(caller, student_id)

\* students.get_student_quiz_results called by caller; the body is the set
\* of the results returned
get_student_quiz_results_as(caller, student_id) ==
    /\ UNCHANGED <<gradeVars, statsVars, sysVars, concVars, notifyVars, recentVars, authVars, detached_tasks>>
    /\ UNCHANGED <<video_submissions, analysis_tasks>>
    /\ IF /\ get_current_user_role(caller) = "student"
          /\ ~IsOwnStudentId(caller, student_id)
       THEN reply' = Reply("get_student_quiz_results", caller, student_id, 403, None)
       ELSE reply' = Reply("get_student_quiz_results", caller, student_id, 200,
                           {quiz_results[id] : id \in ResultsOfStudent(student_id)})

get_student_quiz_results ==
    \E caller \in Callers, student_id \in (DOMAIN students) \cup {UnknownId} :
        get_student_quiz_results_as(caller, student_id)

\* videos.get_video_submission called by caller
get_video_submission_as(caller, submission_id) ==
    /\ UNCHANGED <<gradeVars, statsVars, sysVars, concVars, notifyVars, recentVars, authVars, detached_tasks>>
    /\ UNCHANGED <<video_submissions, analysis_tasks>>
    /\ IF submission_id \notin DOMAIN video_submissions
       THEN reply' = Reply("get_video_submission", caller, submission_id, 404, None)
       ELSE LET submission_data == video_submissions[submission_id]
            IN  IF /\ get_current_user_role(caller) # "admin"
                   /\ ~IsOwnStudentId(caller, submission_data.student_id)
                THEN reply' = Reply("get_video_submission", caller, submission_id, 403, None)
                ELSE reply' = Reply("get_video_submission", caller, submission_id, 200,
                                    submission_data)

get_video_submission ==
    \E caller \in Callers, submission_id \in VideoUuids :
        get_video_submission_as(caller, submission_id)

\* videos.delete_video_submission called by caller
delete_video_submission_as(caller, submission_id) ==
    /\ UNCHANGED <<gradeVars, statsVars, sysVars, concVars, notifyVars, recentVars, authVars, detached_tasks>>
    /\ UNCHANGED analysis_tasks
    /\ IF submission_id \notin DOMAIN video_submissions
       THEN /\ reply' = Reply("delete_video_submission", caller, submission_id, 404, None)
            /\ UNCHANGED video_submissions
       ELSE LET submission_data == video_submissions[submission_id]
            IN  IF /\ get_current_user_role(caller) # "admin"
                   /\ ~IsOwnStudentId(caller, submission_data.student_id)
                THEN /\ reply' = Reply("delete_video_submission", caller, submission_id,
                                       403, None)
                     /\ UNCHANGED video_submissions
                ELSE /\ video_submissions' = Delete(video_submissions, submission_id)
                     /\ reply' = Reply("delete_video_submission", caller, submission_id,
                                       200, None)

delete_video_submission ==
    \E caller \in Callers, submission_id \in VideoUuids :
        delete_video_submission_as(caller, submission_id)

\* the Result stored for a student who answered nothing on a one-question quiz
StoredResult(result_id, student_data) ==
    [grade_quiz(QuizResponse(1, student_data.id, <<>>, "now"),
                get_default_questions(1), "none", result_id).quiz_result
        EXCEPT !.student_name = student_data.name]

\* the store holds the student record of ana and, or not, the one of bob,
\* one quiz result per record, and video submissions of these students
InitAccess ==
    /\ quizzes = <<>>
    /\ \E ids \in {{1}, {1, 2}} :
          /\ students = [id \in ids |->
                            StudentDoc(id, IF id = 1 THEN "ana@school.edu"
                                           ELSE "bob@school.edu")]
          /\ quiz_results = [id \in ids |-> StoredResult(id, students[id])]
          /\ \E submitted \in SUBSET VideoUuids :
                \E owner \in [submitted -> ids], state \in [submitted -> {"uploaded", "analyzed"}] :
                   video_submissions =
                      [id \in submitted |->
                          IF state[id] = "uploaded"
                          THEN VideoDoc(id, students[owner[id]])
                          ELSE FirestoreUpdate(VideoDoc(id, students[owner[id]]),
                                               AnalysisUpdate(AnalysisResult))]
    /\ next_uuid = [students |-> 3, quizzes |-> 1, quiz_results |-> 3]
    /\ background_tasks = {}
    /\ response = NoResponse
    /\ analysis_tasks = <<>>
    /\ reply = NoReply
    /\ detached_tasks = {}
    /\ GradeIdle
    /\ StatsIdle
    /\ ConcIdle
    /\ NotifyIdle
    /\ RecentIdle
    /\ AuthIdle

NextAccess ==
    \/ get_student
    \/ get_student_quiz_results
    \/ get_video_submission
    \/ delete_video_submission

SpecAccess == InitAccess /\ [][NextAccess]_vars

\* ------------------------------------------------------------------------
\* Video submissions and their analysis (routers/videos.py): submit_video,
\* the steps of the background task analyze_video_submission, and the
\* handlers that read and delete submissions while tasks are under way
\* ------------------------------------------------------------------------
\* the least id uuid4 has not handed out yet; every submission ever made
\* has its task in analysis_tasks
NewVideoUuid == CHOOSE id \in VideoUuids \ DOMAIN analysis_tasks :
                    \A other \in VideoUuids \ DOMAIN analysis_tasks : id <= other

\* videos.submit_video
submit_video ==
    /\ UNCHANGED <<gradeVars, statsVars, sysVars, concVars, notifyVars, recentVars, authVars, detached_tasks>>
    /\ \E caller \in Callers :
        IF StudentsByEmail(caller) = {}
        THEN /\ reply' = Reply("submit_video", caller, UnknownId, 404, None)
             /\ UNCHANGED <<video_submissions, analysis_tasks>>
        ELSE LET student_data == students[CHOOSE id \in StudentsByEmail(caller) : TRUE]
                 video_submission == VideoDoc(NewVideoUuid, student_data)
             IN  /\ VideoUuids \ DOMAIN analysis_tasks # {}
                 /\ video_submissions' =
                       Put(video_submissions, video_submission.id, video_submission)
                 /\ analysis_tasks' =
                       Put(analysis_tasks, video_submission.id, [pc |-> "scheduled"])
                 /\ reply' = Reply("submit_video", caller, video_submission.id, 200,
                                   video_submission)

\* the task of submission_id moves to position pc
TaskGoto(submission_id, pc) ==
    analysis_tasks' = [analysis_tasks EXCEPT ![submission_id] = [pc |-> pc]]

\* analyze_video_submission: the submission is read; the task returns when
\* it does not exist
TaskGet ==
    /\ \E submission_id \in DOMAIN analysis_tasks :
          /\ analysis_tasks[submission_id].pc = "scheduled"
          /\ IF submission_id \notin DOMAIN video_submissions
             THEN TaskGoto(submission_id, "returned")
             ELSE TaskGoto(submission_id, "set_processing")
    /\ UNCHANGED <<gradeVars, statsVars, sysVars, concVars, notifyVars, recentVars, authVars, detached_tasks>>
    /\ UNCHANGED <<video_submissions, reply>>

\* analyze_video_submission: update({'status': PROCESSING}), before the try;
\* update raises when the document does not exist
TaskSetProcessing ==
    /\ \E submission_id \in DOMAIN analysis_tasks :
          /\ analysis_tasks[submission_id].pc = "set_processing"
          /\ IF submission_id \notin DOMAIN video_submissions
             THEN /\ TaskGoto(submission_id, "raised")
                  /\ UNCHANGED video_submissions
             ELSE /\ video_submissions' =
                        [video_submissions EXCEPT ![submission_id] =
                            FirestoreUpdate(@, [status |-> "processing"])]
                  /\ TaskGoto(submission_id, "analyze")
    /\ UNCHANGED <<gradeVars, statsVars, sysVars, concVars, notifyVars, recentVars, authVars, detached_tasks, reply>>

\* analyze_video_submission: VideoAnalysisTask(...), VideoAnalyzerAgent()
\* and analyze_video, which return the analysis or raise
TaskAnalyze ==
    /\ \E submission_id \in DOMAIN analysis_tasks, outcome \in {"returns", "raises"} :
          /\ analysis_tasks[submission_id].pc = "analyze"
          /\ IF outcome = "raises"
             THEN TaskGoto(submission_id, "except")
             ELSE TaskGoto(submission_id, "store")
    /\ UNCHANGED <<gradeVars, statsVars, sysVars, concVars, notifyVars, recentVars, authVars, detached_tasks>>
    /\ UNCHANGED <<video_submissions, reply>>

\* analyze_video_submission: update({... 'status': ANALYZED ...})
TaskStore ==
    /\ \E submission_id \in DOMAIN analysis_tasks :
          /\ analysis_tasks[submission_id].pc = "store"
          /\ IF submission_id \notin DOMAIN video_submissions
             THEN /\ TaskGoto(submission_id, "except")
                  /\ UNCHANGED video_submissions
             ELSE /\ video_submissions' =
                        [video_submissions EXCEPT ![submission_id] =
                            FirestoreUpdate(@, AnalysisUpdate(AnalysisResult))]
                  /\ TaskGoto(submission_id, "notify")
    /\ UNCHANGED <<gradeVars, statsVars, sysVars, concVars, notifyVars, recentVars, authVars, detached_tasks, reply>>

\* analyze_video_submission: EmailNotifierAgent(), VideoSubmission(...) and
\* send_video_feedback_notification, inside the try of the analysis: the
\* message is "sent", the send fails and is caught ("not sent"), or one of
\* the calls outside send's own try "raises"
TaskNotify ==
    /\ \E submission_id \in DOMAIN analysis_tasks,
          outcome \in {"sent", "not sent", "raises"} :
          /\ analysis_tasks[submission_id].pc = "notify"
          /\ IF outcome = "raises"
             THEN TaskGoto(submission_id, "except")
             ELSE TaskGoto(submission_id, "returned")
    /\ UNCHANGED <<gradeVars, statsVars, sysVars, concVars, notifyVars, recentVars, authVars, detached_tasks>>
    /\ UNCHANGED <<video_submissions, reply>>

\* analyze_video_submission: except Exception: update({'status': UPLOADED})
TaskExcept ==
    /\ \E submission_id \in DOMAIN analysis_tasks :
          /\ analysis_tasks[submission_id].pc = "except"
          /\ IF submission_id \notin DOMAIN video_submissions
             THEN /\ TaskGoto(submission_id, "raised")
                  /\ UNCHANGED video_submissions
             ELSE /\ video_submissions' =
                        [video_submissions EXCEPT ![submission_id] =
                            FirestoreUpdate(@, [status |-> "uploaded"])]
                  /\ TaskGoto(submission_id, "returned")
    /\ UNCHANGED <<gradeVars, statsVars, sysVars, concVars, notifyVars, recentVars, authVars, detached_tasks, reply>>

\* the store holds the student records of ana and of bob
InitVideo ==
    /\ quizzes = <<>>
    /\ students = [id \in {1, 2} |->
                      StudentDoc(id, IF id = 1 THEN "ana@school.edu" ELSE "bob@school.edu")]
    /\ quiz_results = <<>>
    /\ next_uuid = [students |-> 3, quizzes |-> 1, quiz_results |-> 1]
    /\ background_tasks = {}
    /\ response = NoResponse
    /\ VideoIdle
    /\ GradeIdle
    /\ StatsIdle
    /\ ConcIdle
    /\ NotifyIdle
    /\ RecentIdle
    /\ AuthIdle

NextVideo ==
    \/ submit_video
    \/ TaskGet
    \/ TaskSetProcessing
    \/ TaskAnalyze
    \/ TaskStore
    \/ TaskNotify
    \/ TaskExcept
    \/ get_video_submission
    \/ delete_video_submission

SpecVideo == InitVideo /\ [][NextVideo]_vars

\* videos.analyze_video called by caller: the task is added to a
\* BackgroundTasks object the handler builds itself; the object is not handed
\* to the response, so the framework never runs its tasks
analyze_video_as(caller, submission_id) ==
    /\ UNCHANGED <<gradeVars, statsVars, sysVars, concVars, notifyVars, recentVars, authVars>>
    /\ UNCHANGED <<video_submissions, analysis_tasks>>
    /\ IF get_current_user_role(caller) # "admin"
       THEN /\ reply' = Reply("analyze_video", caller, submission_id, 403, None)
            /\ UNCHANGED detached_tasks
       ELSE /\ detached_tasks' = detached_tasks \cup {submission_id}
            /\ reply' = Reply("analyze_video", caller, submission_id, 200,
                              "Video analysis started")

analyze_video ==
    \E caller \in Callers, submission_id \in VideoUuids :
        analyze_video_as(caller, submission_id)

NextVideoManual ==
    \/ NextVideo
    \/ analyze_video

\* the framework runs every task of a response's BackgroundTasks to its end
TaskFairness ==
    /\ WF_vars(TaskGet)
    /\ WF_vars(TaskSetProcessing)
    /\ WF_vars(TaskAnalyze)
    /\ WF_vars(TaskStore)
    /\ WF_vars(TaskNotify)
    /\ WF_vars(TaskExcept)

SpecVideoManual == InitVideo /\ [][NextVideoManual]_vars /\ TaskFairness

\* ------------------------------------------------------------------------
\* The student's list of recent quizzes (quizzes.get_student_recent_quizzes)
\* next to create_quiz and submit_quiz
\* ------------------------------------------------------------------------
\* where('student_email', '==', email).where('quiz_id', '==', quiz_id) on
\* the collection 'quiz_submissions'
StudentSubmissions(current_user_email, quiz_id) ==
    {id \in DOMAIN quiz_submissions :
        /\ quiz_submissions[id].student_email = current_user_email
        /\ quiz_submissions[id].quiz_id = quiz_id}

\* the entry of one quiz in the list: the quiz document with status and score set
RecentEntry(quiz_data, current_user_email) ==
    LET student_submissions == StudentSubmissions(current_user_email, quiz_data.id)
    IN  IF student_submissions # {}
        THEN [id |-> quiz_data.id, title |-> quiz_data.title, status |-> "completed",
              score |-> quiz_submissions[CHOOSE id \in student_submissions : TRUE].score]
        ELSE [id |-> quiz_data.id, title |-> quiz_data.title, status |-> "available",
              score |-> None]

\* quizzes.get_student_recent_quizzes called by caller
get_student_recent_quizzes_as(caller) ==
    /\ UNCHANGED <<gradeVars, statsVars, sysVars, concVars, notifyVars, recentVars, authVars>>
    /\ UNCHANGED <<video_submissions, analysis_tasks, detached_tasks>>
    /\ IF get_current_user_role(caller) # "student"
       THEN reply' = Reply("get_student_recent_quizzes", caller, UnknownId, 403, None)
       ELSE reply' = Reply("get_student_recent_quizzes", caller, UnknownId, 200,
                           [i \in DOMAIN DocsInOrder(quizzes, DOMAIN quizzes) |->
                               RecentEntry(DocsInOrder(quizzes, DOMAIN quizzes)[i], caller)])

get_student_recent_quizzes == \E caller \in Callers : get_student_recent_quizzes_as(caller)

NextRecent ==
    \/ create_quiz
    \/ submit_quiz
    \/ get_student_recent_quizzes

SpecRecent == InitQuizAdmin /\ [][NextRecent]_vars

\* ------------------------------------------------------------------------
\* The notification formatter (agents/email_notifier.py): the three
\* _generate_*_email methods applied to bounded inputs.  A content is the
\* sequence of the literal pieces of the f-string and of the values
\* substituted between them.
\* ------------------------------------------------------------------------
\* the most formatter calls recorded
MaxFormatted == 2

Names == {"Ana", "O'Neil <Jr>"}

Titles == {"Algebra I", "Sets & maps"}

Subjects == {"Math", "History"}

\* the template of the try branch of _generate_quiz_created_email
quiz_created_template(student_name, quiz_title, quiz_subject) ==
    [html |-> <<"<html><body><h2>New Quiz Available!</h2><p>Hello ", student_name,
                ",</p><p>A new quiz has been created for you:</p><ul><li><strong>Quiz:</strong> ",
                quiz_title, "</li><li><strong>Subject:</strong> ", quiz_subject,
                "</li></ul><p>Please log in to your student portal to complete the quiz. Good luck!</p><p>Best regards,<br>Your Education Team</p></body></html>">>,
     text |-> <<"New Quiz Available! Hello ", student_name,
                ", A new quiz has been created for you: - Quiz: ", quiz_title,
                " - Subject: ", quiz_subject,
                " Please log in to your student portal to complete the quiz. Good luck! Best regards, Your Education Team">>]

\* EmailNotifierAgent._get_default_quiz_created_email
get_default_quiz_created_email_untitled(student_name, quiz_title, quiz_subject) ==
    [html |-> <<"<html><body><h2>New Quiz Available!</h2><p>Hello ", student_name,
                ",</p><p>A new quiz in ", quiz_subject,
                " is now available for you to complete.</p><p>Please log in to complete it at your earliest convenience.</p><p>Best regards,<br>Your Education Team</p></body></html>">>,
     text |-> <<"New Quiz Available! Hello ", student_name, ", A new quiz \"", quiz_title,
                "\" in ", quiz_subject,
                " is now available for you to complete. Please log in to complete it at your earliest convenience. Best regards, Your Education Team">>]

get_default_quiz_created_email(student_name, quiz_title, quiz_subject) ==
    [html |-> <<"<html><body><h2>New Quiz Available!</h2><p>Hello ", student_name,
                ",</p><p>A new quiz \"", quiz_title, "\" in ", quiz_subject,
                " is now available for you to complete.</p><p>Please log in to complete it at your earliest convenience.</p><p>Best regards,<br>Your Education Team</p></body></html>">>,
     text |-> <<"New Quiz Available! Hello ", student_name, ", A new quiz \"", quiz_title,
                "\" in ", quiz_subject,
                " is now available for you to complete. Please log in to complete it at your earliest convenience. Best regards, Your Education Team">>]

\* EmailNotifierAgent._generate_quiz_created_email; kickoff is what
\* crew.kickoff() does: it "answers" (the answer is not used) or it "raises"
generate_quiz_created_email(student_name, quiz_title, quiz_subject, kickoff) ==
    IF kickoff = "answers"
    THEN quiz_created_template(student_name, quiz_title, quiz_subject)
    ELSE get_default_quiz_created_email(student_name, quiz_title, quiz_subject)

\* EmailNotifierAgent._generate_video_feedback_email
generate_video_feedback_email(video_submission) ==
    [html |-> <<"<html><body><h2>Video Analysis Feedback</h2><p>Hello ",
                video_submission.student_name, ",</p><p>Your video submission \"",
                video_submission.title,
                "\" has been analyzed. Here's your feedback:</p><h3>Analysis Summary:</h3><p>",
                video_submission.analysis_summary, "</p><h3>Feedback:</h3><p>",
                video_submission.feedback,
                "</p><p>Great job on your submission! Keep practicing and improving.</p><p>Best regards,<br>Your Education Team</p></body></html>">>,
     text |-> <<"Video Analysis Feedback Hello ", video_submission.student_name,
                ", Your video submission \"", video_submission.title,
                "\" has been analyzed. Here's your feedback: Analysis Summary: ",
                video_submission.analysis_summary, " Feedback: ", video_submission.feedback,
                " Great job on your submission! Keep practicing and improving. Best regards, Your Education Team">>]

\* a formatter call as recorded: its kind, its arguments, what crew.kickoff()
\* did if it was called, and the content returned
Formatted(kind, args, kickoff, content) ==
    [kind |-> kind, args |-> args, kickoff |-> kickoff, content |-> content]

InitNotify ==
    /\ formatted = <<>>
    /\ kickoffs = 0
    /\ SysIdle
    /\ GradeIdle
    /\ StatsIdle
    /\ ConcIdle
    /\ VideoIdle
    /\ RecentIdle
    /\ AuthIdle

FormatQuizCreated ==
    /\ Len(formatted) < MaxFormatted
    /\ \E student_name \in Names, quiz_title \in Titles, quiz_subject \in Subjects,
          kickoff \in {"answers", "raises"} :
          /\ kickoffs' = kickoffs + 1
          /\ formatted' =
                Append(formatted,
                       Formatted("quiz_created", <<student_name, quiz_title, quiz_subject>>,
                                 kickoff,
                                 generate_quiz_created_email(student_name, quiz_title,
                                                             quiz_subject, kickoff)))
    /\ UNCHANGED <<gradeVars, statsVars, sysVars, concVars, videoVars, recentVars, authVars>>

FormatQuizResult ==
    /\ Len(formatted) < MaxFormatted
    /\ \E student_id \in {1, 2}, feedback \in {AICommentary, FallbackFeedback(0, 1, RatInt(0))} :
          LET quiz_result ==
                 StoredResult(1, StudentDoc(student_id, IF student_id = 1 THEN "ana@school.edu"
                                                        ELSE "bob@school.edu"))
          IN  formatted' =
                 Append(formatted,
                        Formatted("quiz_result", <<quiz_result, feedback>>, "not called",
                                  generate_quiz_result_email(quiz_result, feedback)))
    /\ UNCHANGED <<kickoffs, gradeVars, statsVars, sysVars, concVars, videoVars, recentVars, authVars>>

FormatVideoFeedback ==
    /\ Len(formatted) < MaxFormatted
    /\ \E student_id \in {1, 2} :
          LET video_submission ==
                 FirestoreUpdate(VideoDoc(1, StudentDoc(student_id,
                                                        IF student_id = 1 THEN "ana@school.edu"
                                                        ELSE "bob@school.edu")),
                                 AnalysisUpdate(AnalysisResult))
          IN  formatted' =
                 Append(formatted,
                        Formatted("video_feedback", <<video_submission>>, "not called",
                                  generate_video_feedback_email(video_submission)))
    /\ UNCHANGED <<kickoffs, gradeVars, statsVars, sysVars, concVars, videoVars, recentVars, authVars>>

NextNotify ==
    \/ FormatQuizCreated
    \/ FormatQuizResult
    \/ FormatVideoFeedback

SpecNotify == InitNotify /\ [][NextNotify]_vars

\* ------------------------------------------------------------------------
\* Properties of grade_quiz (checked under SpecGrade)
\* ------------------------------------------------------------------------
GradeReturned == grade_out.exc = NoExc

\* the sum of f over the finite set S
RECURSIVE SumOver(_, _)
SumOver(S, f) ==
    IF S = {} THEN 0
    ELSE LET x == CHOOSE y \in S : TRUE IN f[x] + SumOver(S \ {x}, f)

PointsAt(questions) == [i \in 1..Len(questions) |-> questions[i].points]

\* the questions whose id the mapping holds with the correct option as value
CorrectlyAnswered(questions, answers) ==
    {i \in 1..Len(questions) :
        /\ questions[i].id \in DOMAIN answers
        /\ answers[questions[i].id] = questions[i].correct_answer_id}

\* the mapping without the key k
WithoutKey(answers, k) == [x \in (DOMAIN answers) \ {k} |-> answers[x]]

\* C1: grade_quiz returns total_points = the sum of the points of all
\* questions and score = the sum of the points of exactly the questions whose
\* id the answer mapping holds with the correct option; a wrong or blank
\* answer scores as no answer does.
C1_ScoreSumsCorrectAnswers ==
    GradeReturned =>
        LET r == grade_out.quiz_result
            qs == arg_questions
            a == arg_response.answers
        IN  /\ r.total_points = SumOver(1..Len(qs), PointsAt(qs))
            /\ r.score = SumOver(CorrectlyAnswered(qs, a), PointsAt(qs))
            /\ \A i \in 1..Len(qs) :
                  (qs[i].id \in DOMAIN a /\ a[qs[i].id] # qs[i].correct_answer_id)
                  => ScoreLoop(qs, WithoutKey(a, qs[i].id), 0) = r.score

C1_Witness ==
    /\ GradeReturned
    /\ Len(arg_questions) = 2
    /\ arg_questions[1].points = 2
    /\ arg_questions[2].points = 1
    /\ DOMAIN arg_response.answers = {1, 2}
    /\ arg_response.answers[1] = arg_questions[1].correct_answer_id
    /\ arg_response.answers[2] # arg_questions[2].correct_answer_id
    /\ grade_out.quiz_result.score = 2
    /\ grade_out.quiz_result.total_points = 3

\* C2 (as claimed): whenever the total points T is > 0, 0 <= score <= T and
\* percentage = 100 * score / T.
C2_ScoreWithinTotal ==
    (GradeReturned /\ grade_out.quiz_result.total_points > 0) =>
        LET r == grade_out.quiz_result
        IN  /\ 0 <= r.score
            /\ r.score <= r.total_points
            /\ r.percentage.num * r.total_points = 100 * r.score * r.percentage.den

\* C3: when the total points is 0 the division is not attempted
\* (no ZeroDivisionError) and the Result carries percentage 0.
C3_ZeroTotalGivesZeroPercent ==
    (grade_out.exc # NotCalled /\ SumOver(1..Len(arg_questions), PointsAt(arg_questions)) = 0) =>
        /\ grade_out.exc # "ZeroDivisionError"
        /\ ai_failure \in {"none", "kickoff"} =>
              /\ GradeReturned
              /\ grade_out.quiz_result.total_points = 0
              /\ grade_out.quiz_result.percentage = RatInt(0)

C3_Witness ==
    /\ GradeReturned
    /\ Len(arg_questions) = 2
    /\ arg_questions[1].points = 0
    /\ arg_questions[2].points = 0
    /\ CorrectlyAnswered(arg_questions, arg_response.answers) = {1, 2}
    /\ grade_out.quiz_result.percentage = RatInt(0)

\* the question list reordered by the permutation pi of its positions
Reordered(questions, pi) == [i \in 1..Len(questions) |-> questions[pi[i]]]

\* C4: score and total_points are the same for every reordering of the
\* question list and for every answer mapping that differs only in keys that
\* are ids of no question.
C4_OrderAndExtraKeysIrrelevant ==
    GradeReturned =>
        LET r == grade_out.quiz_result
            qs == arg_questions
            a == arg_response.answers
            ids == {qs[i].id : i \in 1..Len(qs)}
        IN  /\ \A pi \in Permutations(1..Len(qs)) :
                  /\ ScoreLoop(Reordered(qs, pi), a, 0) = r.score
                  /\ SumPoints(Reordered(qs, pi)) = r.total_points
            /\ \A b \in AnswerMaps :
                  (/\ \A k \in ids : DictGet(b, k) = DictGet(a, k)
                   /\ DOMAIN a \subseteq DOMAIN b
                   /\ (DOMAIN b) \ (DOMAIN a) \subseteq (QuestionIds \cup {UnrelatedKey}) \ ids)
                  => ScoreLoop(qs, b, 0) = r.score

C4_Witness ==
    /\ GradeReturned
    /\ Len(arg_questions) = 2
    /\ arg_questions[1].points = 2
    /\ arg_questions[2].points = 1
    /\ DOMAIN arg_response.answers = {UnrelatedKey, 1, 2}
    /\ arg_response.answers[1] # arg_questions[1].correct_answer_id
    /\ arg_response.answers[2] = arg_questions[2].correct_answer_id
    /\ arg_response.answers[UnrelatedKey] = arg_questions[1].correct_answer_id
    /\ grade_out.quiz_result.score = 1

\* C9 (as claimed): whichever step of obtaining the commentary fails,
\* grade_quiz raises nothing and returns the Result with the fallback string
\* built from score, total_points and percentage.
C9_CommentaryFailureNeverPropagates ==
    (grade_out.exc # NotCalled /\ ai_failure \in CommentarySteps) =>
        /\ GradeReturned
        /\ grade_out.feedback =
              FallbackFeedback(grade_out.quiz_result.score,
                               grade_out.quiz_result.total_points,
                               grade_out.quiz_result.percentage)

\* ------------------------------------------------------------------------
\* Properties of generate_class_statistics and of the performance band
\* (checked under SpecStats)
\* ------------------------------------------------------------------------
StatsReturned == statistics.exc = NoExc

Pct(i) == arg_results[i].percentage

Indices == 1..Len(arg_results)

InRange(p) == RatLe(RatInt(0), p) /\ RatLe(p, RatInt(100))

Bucket(k) == statistics.value.grade_distribution[k]

\* C5 (as claimed): the five buckets partition [0,100] with the boundaries
\* 60, 70, 80, 90 in the higher bucket, so the bucket counts add up to
\* total_students.
C5_BucketsPartition ==
    (StatsReturned /\ arg_results # <<>> /\ \A i \in Indices : InRange(Pct(i))) =>
        /\ Bucket("A (90-100)") = Cardinality({i \in Indices : RatLe(RatInt(90), Pct(i))})
        /\ Bucket("B (80-89)") =
              Cardinality({i \in Indices : RatLe(RatInt(80), Pct(i)) /\ RatLt(Pct(i), RatInt(90))})
        /\ Bucket("C (70-79)") =
              Cardinality({i \in Indices : RatLe(RatInt(70), Pct(i)) /\ RatLt(Pct(i), RatInt(80))})
        /\ Bucket("D (60-69)") =
              Cardinality({i \in Indices : RatLe(RatInt(60), Pct(i)) /\ RatLt(Pct(i), RatInt(70))})
        /\ Bucket("F (0-59)") = Cardinality({i \in Indices : RatLt(Pct(i), RatInt(60))})
        /\ Bucket("A (90-100)") + Bucket("B (80-89)") + Bucket("C (70-79)")
              + Bucket("D (60-69)") + Bucket("F (0-59)") = statistics.value.total_students

\* the sum of the numerators of the percentages brought to the denominator d
RECURSIVE ScaledSum(_, _)
ScaledSum(S, d) ==
    IF S = {} THEN 0
    ELSE LET x == CHOOSE y \in S : TRUE
         IN  (Pct(x).num * d) \div Pct(x).den + ScaledSum(S \ {x}, d)

\* C6: for a non-empty collection total_students is the number of results,
\* average_score their mean percentage, highest_score and lowest_score their
\* maximum and minimum, pass_rate 100 * (number with percentage >= 60) /
\* number; the percentages 100, 80, 60, 40, 20 give 60, 100, 20, 60 and the
\* histogram A:1 B:1 C:0 D:1 F:2.
C6_ClassStatistics ==
    (statistics.exc # NotCalled /\ arg_results # <<>>) =>
        LET v == statistics.value
            n == Len(arg_results)
            \* a multiple of the denominator of every percentage
            CommonDen == 200
        IN  /\ StatsReturned
            /\ \A i \in Indices : CommonDen % Pct(i).den = 0
            /\ v.total_students = n
            /\ v.average_score.num * n * CommonDen
                  = ScaledSum(Indices, CommonDen) * v.average_score.den
            /\ \E i \in Indices : v.highest_score = Pct(i)
            /\ \A i \in Indices : RatLe(Pct(i), v.highest_score)
            /\ \E i \in Indices : v.lowest_score = Pct(i)
            /\ \A i \in Indices : RatLe(v.lowest_score, Pct(i))
            /\ v.pass_rate.num * n
                  = 100 * Cardinality({i \in Indices : ~RatLt(Pct(i), RatInt(60))})
                        * v.pass_rate.den
            /\ arg_results = ScenarioResults =>
                  /\ v.average_score = RatInt(60)
                  /\ v.highest_score = RatInt(100)
                  /\ v.lowest_score = RatInt(20)
                  /\ v.pass_rate = RatInt(60)
                  /\ Bucket("A (90-100)") = 1
                  /\ Bucket("B (80-89)") = 1
                  /\ Bucket("C (70-79)") = 0
                  /\ Bucket("D (60-69)") = 1
                  /\ Bucket("F (0-59)") = 2

C6_Witness ==
    /\ StatsReturned
    /\ arg_results = ScenarioResults
    /\ statistics.value.total_students = 5
    /\ statistics.value.pass_rate = RatInt(60)

\* C7: on an empty collection generate_class_statistics raises nothing and
\* returns the empty dict; on a non-empty collection (all percentages 0
\* included) it returns a dict that is not empty.
C7_EmptySentinel ==
    statistics.exc # NotCalled =>
        /\ StatsReturned
        /\ arg_results = <<>> => DOMAIN statistics.value = {}
        /\ arg_results # <<>> =>
              /\ DOMAIN statistics.value # {}
              /\ "total_students" \in DOMAIN statistics.value
              /\ statistics.value.total_students > 0

C7_Witness ==
    /\ arg_results = <<>>
    /\ StatsReturned
    /\ DOMAIN statistics.value = {}

C7_WitnessAllZero ==
    /\ arg_results # <<>>
    /\ \A i \in Indices : Pct(i) = RatInt(0)
    /\ StatsReturned
    /\ statistics.value.average_score = RatInt(0)

EmailGenerated == email_content # NoEmail

\* C8: the band of a Result is fixed by its percentage: "Excellent" exactly
\* when percentage >= 90, "Good" exactly when 80 <= percentage < 90,
\* "Satisfactory" exactly when 70 <= percentage < 80 and
\* "Needs Improvement" exactly when percentage < 70; html and text show the
\* same band.
C8_PerformanceBand ==
    EmailGenerated =>
        LET p == email_arg.percentage
            band == email_content.html.performance
        IN  /\ email_content.text.performance = band
            /\ band \in {"Excellent", "Good", "Satisfactory", "Needs Improvement"}
            /\ band = "Excellent" <=> RatLe(RatInt(90), p)
            /\ band = "Good" <=> (RatLe(RatInt(80), p) /\ RatLt(p, RatInt(90)))
            /\ band = "Satisfactory" <=> (RatLe(RatInt(70), p) /\ RatLt(p, RatInt(80)))
            /\ band = "Needs Improvement" <=> RatLt(p, RatInt(70))

C8_Witness ==
    /\ EmailGenerated
    /\ email_arg.percentage = RatInt(90)
    /\ email_content.html.performance = "Excellent"

\* ------------------------------------------------------------------------
\* Properties of the service (checked under Spec)
\* ------------------------------------------------------------------------
\* the step is a submit_quiz call that succeeded: it scheduled the
\* notification of a Result (the last effect of the handler before it returns)
SubmitSucceeded ==
    \E task \in background_tasks' \ background_tasks :
        task.fn = "send_quiz_result_notification"

\* C10: a submit_quiz call that succeeds adds exactly one Result to the
\* result store, and no step of any operation changes or removes a stored
\* Result or adds one otherwise.
C10_ResultsCreatedOnceNeverChanged ==
    [][/\ \A id \in DOMAIN quiz_results :
             id \in DOMAIN quiz_results' /\ quiz_results'[id] = quiz_results[id]
       /\ SubmitSucceeded =>
             Cardinality((DOMAIN quiz_results') \ (DOMAIN quiz_results)) = 1
       /\ ~SubmitSucceeded => quiz_results' = quiz_results]_vars

\* two Results of one student for one quiz are stored side by side
C10_Witness ==
    /\ response.status = 200
    /\ \E i, j \in DOMAIN quiz_results :
          /\ i < j
          /\ quiz_results[i].student_id = quiz_results[j].student_id
          /\ quiz_results[i].quiz_id = quiz_results[j].quiz_id
          /\ quiz_results[i].score # quiz_results[j].score

\* a stored question is well formed: exactly one option is flagged correct,
\* that option is the one correct_answer_id names, and points is not negative
WellFormedQuestion(q) ==
    /\ Cardinality({j \in 1..Len(q.options) : q.options[j].is_correct}) = 1
    /\ \A j \in 1..Len(q.options) :
          q.options[j].is_correct => q.options[j].id = q.correct_answer_id
    /\ q.points >= 0

\* C11 (as claimed): every question of every stored quiz is well formed.
C11_StoredQuestionsWellFormed ==
    \A quiz_id \in DOMAIN quizzes :
        \A i \in 1..Len(quizzes[quiz_id].questions) :
            WellFormedQuestion(quizzes[quiz_id].questions[i])

\* the default questions, and AI output in the requested format, are well formed
C11_DefaultQuestionsWellFormed ==
    \A quiz_id \in DOMAIN quizzes :
        quizzes[quiz_id].questions = get_default_questions(2) =>
            \A i \in 1..2 : WellFormedQuestion(quizzes[quiz_id].questions[i])

\* C12: no step changes the questions, total_points or total_questions of a
\* stored quiz, and an update_quiz call changes no field of the quiz other
\* than the fields its body provides and updated_at, and no other quiz
\* (holds under Spec and under SpecQuizAdmin).
C12_QuestionsNeverChange ==
    [][/\ \A id \in (DOMAIN quizzes) \cap (DOMAIN quizzes') :
             /\ DOMAIN quizzes'[id] = DOMAIN quizzes[id]
             /\ quizzes'[id].questions = quizzes[id].questions
             /\ quizzes'[id].total_points = quizzes[id].total_points
             /\ quizzes'[id].total_questions = quizzes[id].total_questions
       /\ \A caller \in Callers, quiz_id \in DOMAIN quizzes,
             quiz_update \in QuizUpdates :
             update_quiz_as(caller, quiz_id, quiz_update) =>
                /\ DOMAIN quizzes' = DOMAIN quizzes
                /\ \A id \in (DOMAIN quizzes) \ {quiz_id} : quizzes'[id] = quizzes[id]
                /\ \A k \in (DOMAIN quizzes[quiz_id])
                              \ ((DOMAIN quiz_update) \cup {"updated_at"}) :
                      quizzes'[quiz_id][k] = quizzes[quiz_id][k]
                /\ get_current_user_role(caller) = "admin" =>
                      \A k \in DOMAIN quiz_update :
                          quizzes'[quiz_id][k] = quiz_update[k]]_vars

\* a quiz made from AI output has been updated: the provided title and
\* duration are stored, the description and the questions are as created
C12_Witness ==
    /\ response.status = 200
    /\ \E id \in DOMAIN quizzes :
          /\ quizzes[id].title = "Algebra II"
          /\ quizzes[id].duration_minutes = 45
          /\ quizzes[id].description = "Linear equations"
          /\ quizzes[id].questions \in GeneratedByAI
          /\ quizzes[id].total_points = SumPoints(quizzes[id].questions)

\* ------------------------------------------------------------------------
\* Properties of concurrent submit_quiz calls (checked under SpecConc)
\* ------------------------------------------------------------------------
BothCompleted ==
    \A r \in RequestIds : requests[r].pc = "done" /\ requests[r].status = 200

\* the count of the student document the call r read in update_student_stats
ReadCount(r) == requests[r].read_doc.total_quizzes

PctOf(r) == requests[r].quiz_result.percentage

\* C13: update_student_stats writes the count and the average it computed
\* from the document it read earlier.  When two submit_quiz calls of one
\* student have both completed, either one call read after the other wrote,
\* and then total_quizzes grew by 2 and average_score is the mean of the two
\* percentages, or both read before either wrote, and then total_quizzes
\* grew by only 1 and average_score is the percentage of one call alone.
C13_LostUpdate ==
    BothCompleted =>
        LET student == students[1]
            lost == ReadCount(1) = 0 /\ ReadCount(2) = 0
        IN  /\ Cardinality(DOMAIN quiz_results) = 2
            /\ lost => /\ student.total_quizzes = 1
                       /\ student.average_score \in {PctOf(1), PctOf(2)}
            /\ ~lost => /\ student.total_quizzes = 2
                        /\ student.average_score =
                              PyDiv(RatAdd(PctOf(1), PctOf(2)), RatInt(2)).value

\* both calls have completed with different percentages, two Results are
\* stored, and the student record counts one quiz and averages one percentage
C13_Witness ==
    /\ BothCompleted
    /\ Cardinality(DOMAIN quiz_results) = 2
    /\ PctOf(1) # PctOf(2)
    /\ students[1].total_quizzes = 1
    /\ students[1].average_score = PctOf(1)
    /\ students[1].average_score # PyDiv(RatAdd(PctOf(1), PctOf(2)), RatInt(2)).value

\* the Result grade_quiz produces for the submission of the call r when it
\* is the only call
GradedAlone(r) ==
    grade_quiz(QuizResponse(requests[r].body_quiz_id, requests[r].student_data.id,
                            requests[r].answers, "now"),
               requests[r].quiz_data.questions, "none",
               requests[r].quiz_result.id).quiz_result

\* the fields of a Result that grading determines
GradedFields(quiz_result) ==
    <<quiz_result.answers, quiz_result.score, quiz_result.total_points,
      quiz_result.percentage, quiz_result.quiz_id, quiz_result.student_id>>

\* C14: in every interleaving of the steps of two calls, the Result of each
\* call, as built and as stored, has the answers, score, total_points,
\* percentage, quiz_id and student_id of the Result that grading its
\* submission alone produces.
C14_GradingIndependent ==
    \A r \in RequestIds :
        requests[r].quiz_result # NoResult =>
            /\ GradedFields(requests[r].quiz_result) = GradedFields(GradedAlone(r))
            /\ requests[r].quiz_result.id \in DOMAIN quiz_results =>
                  GradedFields(quiz_results[requests[r].quiz_result.id])
                      = GradedFields(GradedAlone(r))

\* call 1 has its Result while call 2, with other answers, is in the middle
\* of its grading loop
C14_Witness ==
    /\ requests[1].quiz_result # NoResult
    /\ requests[2].pc = "grade_loop"
    /\ frames[2].idx = 2
    /\ requests[1].answers # requests[2].answers
    /\ requests[1].quiz_result.score # 0
    /\ requests[1].quiz_result.score # frames[2].score

\* ------------------------------------------------------------------------
\* Properties of quiz management (checked under SpecQuizAdmin)
\* ------------------------------------------------------------------------
\* the callers whose user document does not have the role admin
NonAdmins == {caller \in Callers : users[caller] # "admin"}

\* the step answers 403 and writes nothing
Rejected ==
    /\ response'.status = 403
    /\ UNCHANGED <<quizzes, background_tasks, students, quiz_results, next_uuid>>

\* the step is a create_quiz, update_quiz or delete_quiz call of the caller
QuizManagementCall(caller) ==
    \/ create_quiz_as(caller)
    \/ \E quiz_id \in (DOMAIN quizzes) \cup {UnknownId} :
          \/ delete_quiz_as(caller, quiz_id)
          \/ \E quiz_update \in QuizUpdates : update_quiz_as(caller, quiz_id, quiz_update)

\* C15: a create_quiz, update_quiz or delete_quiz call of a caller who is
\* not an admin answers 403 and leaves the store and the scheduled
\* notifications as they were; every step that creates, changes or deletes
\* a quiz or schedules a quiz notification is such a call of an admin.
C15_QuizManagementAdminOnly ==
    [][/\ \A caller \in NonAdmins : QuizManagementCall(caller) => Rejected
       /\ (\/ quizzes' # quizzes
           \/ \E task \in background_tasks' \ background_tasks :
                 task.fn = "send_quiz_notifications")
          => \E caller \in Callers \ NonAdmins : QuizManagementCall(caller)]_vars

\* a quiz exists, its notification is still scheduled, and the last quiz
\* management call was answered 403
C15_Witness ==
    /\ response.status = 403
    /\ quizzes # <<>>
    /\ \E task \in background_tasks : task.fn = "send_quiz_notifications"
    /\ quiz_results # <<>>

\* ------------------------------------------------------------------------
\* Properties of the access checks (checked under SpecAccess)
\* ------------------------------------------------------------------------
\* the student record student_id is the one of the caller
BelongsTo(caller, student_id) ==
    /\ student_id \in DOMAIN students
    /\ students[student_id].email = caller

\* the step answers 403, returns no data and writes nothing
Denied ==
    /\ reply'.status = 403
    /\ reply'.body = None
    /\ UNCHANGED <<students, quiz_results, video_submissions, quizzes>>

\* the step answers with the stored document
Returned(doc) == reply'.status = 200 /\ reply'.body = doc

\* C16: for a caller with the student role, get_student and
\* get_student_quiz_results on a student id that is not the id of the
\* caller's record, and get_video_submission and delete_video_submission
\* on a stored submission of another student's record, answer 403, return
\* no data and write nothing; an admin is never answered 403, is returned
\* every stored record, result list and submission, and deletes any
\* stored submission.
C16_StudentsOnlyOwnData ==
    [][/\ \A caller \in NonAdmins :
             /\ \A student_id \in (DOMAIN students) \cup {UnknownId} :
                   ~BelongsTo(caller, student_id) =>
                      /\ get_student_as(caller, student_id) => Denied
                      /\ get_student_quiz_results_as(caller, student_id) => Denied
             /\ \A submission_id \in DOMAIN video_submissions :
                   ~BelongsTo(caller, video_submissions[submission_id].student_id) =>
                      /\ get_video_submission_as(caller, submission_id) => Denied
                      /\ delete_video_submission_as(caller, submission_id) => Denied
       /\ \A caller \in Callers \ NonAdmins :
             /\ \A student_id \in DOMAIN students :
                   /\ get_student_as(caller, student_id) => Returned(students[student_id])
                   /\ get_student_quiz_results_as(caller, student_id) =>
                         Returned({quiz_results[id] : id \in ResultsOfStudent(student_id)})
             /\ \A submission_id \in DOMAIN video_submissions :
                   /\ get_video_submission_as(caller, submission_id) =>
                         Returned(video_submissions[submission_id])
                   /\ delete_video_submission_as(caller, submission_id) =>
                         /\ reply'.status = 200
                         /\ submission_id \notin DOMAIN video_submissions']_vars

\* bob, who has a student record, was just refused a submission of ana
\* that is still stored
C16_Witness ==
    /\ reply.status = 403
    /\ reply.caller = "bob@school.edu"
    /\ reply.op = "delete_video_submission"
    /\ StudentsByEmail("bob@school.edu") # {}
    /\ reply.target \in DOMAIN video_submissions
    /\ video_submissions[reply.target].student_id = 1

\* ------------------------------------------------------------------------
\* Properties of the notification formatter (checked under SpecNotify)
\* ------------------------------------------------------------------------
\* the value is one of the pieces of the body
ContainsVerbatim(body, value) == \E i \in DOMAIN body : body[i] = value

\* C17: every quiz-created content, from the template of the normal path
\* or from the default template, has the recipient name, the quiz title and
\* the subject among the pieces of its HTML body and of its text body.
C17_QuizCreatedContainsValues ==
    \A i \in DOMAIN formatted :
        formatted[i].kind = "quiz_created" =>
            \A k \in DOMAIN formatted[i].args :
                /\ ContainsVerbatim(formatted[i].content.html, formatted[i].args[k])
                /\ ContainsVerbatim(formatted[i].content.text, formatted[i].args[k])

\* the same name, title and subject were formatted on the normal path and
\* on the default path
C17_Witness ==
    /\ Len(formatted) = 2
    /\ formatted[1].kind = "quiz_created"
    /\ formatted[2].kind = "quiz_created"
    /\ formatted[1].args = <<"O'Neil <Jr>", "Sets & maps", "History">>
    /\ formatted[2].args = formatted[1].args
    /\ formatted[1].kickoff = "answers"
    /\ formatted[2].kickoff = "raises"

\* C18: formatting makes no external call, and two calls of one kind with
\* the same arguments return the same content.
C18_FormattingPure ==
    /\ kickoffs = 0
    /\ \A i, j \in DOMAIN formatted :
          formatted[i].kind = formatted[j].kind =>
             (formatted[i].args = formatted[j].args =>
                 formatted[i].content = formatted[j].content)

\* the quiz-result and the video-feedback formatter make no external call
\* and return the same content for the same arguments
C18_ResultAndVideoFormattingPure ==
    /\ (\A i \in DOMAIN formatted : formatted[i].kind # "quiz_created") => kickoffs = 0
    /\ \A i, j \in DOMAIN formatted :
          (formatted[i].kind = formatted[j].kind /\ formatted[i].kind # "quiz_created") =>
             (formatted[i].args = formatted[j].args =>
                 formatted[i].content = formatted[j].content)

\* ------------------------------------------------------------------------
\* Properties of the video analysis task (checked under SpecVideo)
\* ------------------------------------------------------------------------
\* C19: a stored submission whose status is uploaded carries no analysis
\* results: a failure of the notification step, which follows the write of
\* the results with status analyzed, does not move the status back.
C19_UploadedCarriesNoAnalysis ==
    \A id \in DOMAIN video_submissions :
        video_submissions[id].status = "uploaded" =>
            /\ video_submissions[id].transcription = None
            /\ video_submissions[id].analysis_summary = None
            /\ video_submissions[id].feedback = None
            /\ video_submissions[id].analyzed_at = None

\* the task of the submission has ended
TaskEnded(id) == analysis_tasks[id].pc \in {"returned", "raised"}

ManualStarted(id) ==
    /\ reply.op = "analyze_video"
    /\ reply.status = 200
    /\ reply.target = id
    /\ id \in DOMAIN video_submissions
    /\ TaskEnded(id)

\* C21: after an admin's analyze_video call for a stored submission was
\* answered "Video analysis started", the submission's status eventually
\* is processing (or the submission is deleted).
C21_ManualAnalysisRuns ==
    \A id \in VideoUuids :
        ManualStarted(id) ~>
            (id \notin DOMAIN video_submissions \/ video_submissions[id].status = "processing")

\* ------------------------------------------------------------------------
\* Properties of the list of recent quizzes (checked under SpecRecent)
\* ------------------------------------------------------------------------
\* the Results stored for the caller's student record and the quiz
ResultsOfCaller(caller, quiz_id) ==
    {id \in DOMAIN quiz_results :
        /\ quiz_results[id].student_id \in StudentsByEmail(caller)
        /\ quiz_results[id].quiz_id = quiz_id}

\* C22: in the list get_student_recent_quizzes returns to a student, a
\* quiz for which a Result of that student is stored has status completed
\* and the score of such a Result, and every other quiz has status
\* available and score None.
C22_RecentStatusFollowsSubmissions ==
    [][\A caller \in NonAdmins :
          get_student_recent_quizzes_as(caller) =>
             \A i \in DOMAIN reply'.body :
                LET entry == reply'.body[i]
                    stored == ResultsOfCaller(caller, entry.id)
                IN  IF stored # {}
                    THEN /\ entry.status = "completed"
                         /\ entry.score # None
                         /\ \E id \in stored : entry.score = quiz_results[id].score
                    ELSE /\ entry.status = "available"
                         /\ entry.score = None]_vars

\* C23: the Mail of every scheduled quiz-result notification is addressed
\* to the email of the student record the Result belongs to, the record of
\* the caller who submitted (checked under SpecQuizAdmin).
C23_ResultMailToSubmitter ==
    \A task \in background_tasks :
        task.fn = "send_quiz_result_notification" =>
            \A student_id \in DOMAIN students :
                student_id = task.quiz_result.student_id =>
                    quiz_result_mail(task.quiz_result, task.feedback).to_emails =
                        EmailText(students[student_id].email)

\* ------------------------------------------------------------------------
\* Properties of submit_quiz step by step (checked under SpecConc)
\* ------------------------------------------------------------------------
\* C24: the quiz_id of every stored Result is the quiz_id of the path of
\* the call that stored it, the quiz whose questions graded it.
C24_ResultQuizIsGradedQuiz ==
    \A r \in RequestIds :
        (/\ requests[r].quiz_result # NoResult
         /\ requests[r].quiz_result.id \in DOMAIN quiz_results) =>
            quiz_results[requests[r].quiz_result.id].quiz_id = requests[r].quiz_id

\* C25: a submit_quiz call that ended with an error has stored no Result,
\* and a call that ended with 200 has stored its Result.
C25_SubmitAllOrNothing ==
    \A r \in RequestIds :
        requests[r].pc = "done" =>
            IF requests[r].status = 200
            THEN requests[r].quiz_result.id \in DOMAIN quiz_results
            ELSE requests[r].quiz_result.id \notin DOMAIN quiz_results

\* the sum of the percentages of the Results with the given ids
RECURSIVE PercentageSum(_)
PercentageSum(ids) ==
    IF ids = {} THEN RatInt(0)
    ELSE LET id == CHOOSE x \in ids : TRUE
         IN  RatAdd(quiz_results[id].percentage, PercentageSum(ids \ {id}))

\* the arithmetic mean of the percentages of a non-empty set of Results
PercentageMean(ids) == PyDiv(PercentageSum(ids), RatInt(Cardinality(ids))).value

Persisted(r) ==
    /\ requests[r].pc = "done"
    /\ requests[r].status = 200
    /\ requests[r].quiz_result.id \in DOMAIN quiz_results

\* C27: the student_id of a persisted Result is the id of the student record
\* matching the caller's email, whatever student_id and submitted_at the
\* request body carried; two calls of one caller persist Results with the
\* same student_id and update the statistics of that one student.
C27_ResultStudentIsCaller ==
    /\ \A r \in RequestIds :
          Persisted(r) =>
              /\ quiz_results[requests[r].quiz_result.id].student_id
                     \in StudentsByEmail(requests[r].caller)
              /\ requests[r].student_data.id
                     = quiz_results[requests[r].quiz_result.id].student_id
              /\ quiz_results[requests[r].quiz_result.id].submitted_at = "now"
    /\ \A r1, r2 \in RequestIds :
          (Persisted(r1) /\ Persisted(r2) /\ requests[r1].caller = requests[r2].caller) =>
              /\ quiz_results[requests[r1].quiz_result.id].student_id
                     = quiz_results[requests[r2].quiz_result.id].student_id
              /\ students[quiz_results[requests[r1].quiz_result.id].student_id].total_quizzes >= 1

\* two persisted calls of one caller whose bodies agree on quiz_id and
\* answers and differ in student_id and in submitted_at
C27_Witness ==
    \E r1, r2 \in RequestIds :
        /\ Persisted(r1)
        /\ Persisted(r2)
        /\ requests[r1].caller = requests[r2].caller
        /\ requests[r1].body_quiz_id = requests[r2].body_quiz_id
        /\ requests[r1].answers = requests[r2].answers
        /\ requests[r1].body_student_id # requests[r2].body_student_id
        /\ requests[r1].body_submitted_at # requests[r2].body_submitted_at

\* ------------------------------------------------------------------------
\* Registration and login (routers/auth.py) over the 'users' collection of
\* the document store and the in-memory dev_users_db of the server process
\* ------------------------------------------------------------------------
AuthEmails == {"ana@school.edu", "bob@school.edu"}

Passwords == {"pw1", "pw2"}

UserRoles == {"student", "admin"}

\* settings.jwt_secret_key
jwt_secret_key == "your-secret-key-here"

\* hashlib.sha256(password.encode()).hexdigest(): different passwords of the
\* model have different digests
get_password_hash(password) == [sha256 |-> password]

verify_password(plain_password, hashed_password) ==
    get_password_hash(plain_password) = hashed_password

\* jwt.encode(to_encode, settings.jwt_secret_key, ...) of data with "exp"
create_access_token(data) ==
    [payload |-> [sub |-> data.sub, role |-> data.role, exp |-> "now+30min"],
     signed_with |-> jwt_secret_key]

\* verify_token on a token that has not expired: the email, or 401
verify_token(credentials) ==
    IF credentials.signed_with # jwt_secret_key
    THEN [status |-> 401, email |-> None]
    ELSE IF credentials.payload.sub = None
    THEN [status |-> 401, email |-> None]
    ELSE [status |-> 200, email |-> credentials.payload.sub]

\* get_firestore_db(): the client, or None when the Firebase app does not
\* exist or no client can be made
get_firestore_db == IF db_available THEN "client" ELSE None

\* users_ref.where('email', '==', email).limit(1).get()
UsersByEmail(email) ==
    {id \in DOMAIN users_collection : users_collection[id].email = email}

\* str(uuid.uuid4()): an id no stored user has
NewUserUuid == Cardinality(DOMAIN users_collection) + Cardinality(DOMAIN dev_users_db) + 1

UserDoc(user_id, email, role, password) ==
    [id |-> user_id, email |-> email, name |-> NameOf(email), role |-> role,
     password_hash |-> get_password_hash(password)]

AuthReply(op, email, password, code, body) ==
    [op |-> op, email |-> email, password |-> password, status |-> code, body |-> body]

\* the response body of User(**user_doc) without password_hash
UserResponse(user_doc) ==
    [id |-> user_doc.id, email |-> user_doc.email, name |-> user_doc.name,
     role |-> user_doc.role]

\* auth.register
register ==
    /\ UNCHANGED <<gradeVars, statsVars, sysVars, concVars, videoVars, notifyVars, recentVars>>
    /\ UNCHANGED db_available
    /\ \E email \in AuthEmails, password \in Passwords, role \in UserRoles :
        LET user_doc == UserDoc(NewUserUuid, email, role, password)
        IN  IF get_firestore_db = None
            THEN IF email \in DOMAIN dev_users_db
                 THEN /\ auth_reply' = AuthReply("register", email, password, 400,
                                                 [detail |-> "Email already registered"])
                      /\ UNCHANGED <<users_collection, dev_users_db, registered>>
                 ELSE /\ dev_users_db' = Put(dev_users_db, email, user_doc)
                      /\ registered' = registered \cup {<<email, password>>}
                      /\ auth_reply' = AuthReply("register", email, password, 200,
                                                 UserResponse(user_doc))
                      /\ UNCHANGED users_collection
            ELSE IF UsersByEmail(email) # {}
                 THEN /\ auth_reply' = AuthReply("register", email, password, 400,
                                                 [detail |-> "Email already registered"])
                      /\ UNCHANGED <<users_collection, dev_users_db, registered>>
                 ELSE /\ users_collection' = Put(users_collection, user_doc.id, user_doc)
                      /\ registered' = registered \cup {<<email, password>>}
                      /\ auth_reply' = AuthReply("register", email, password, 200,
                                                 UserResponse(user_doc))
                      /\ UNCHANGED dev_users_db

\* the user document login reads: dev_users_db[email], or users[0] of the
\* query on the 'users' collection; NoDoc when there is none
LoginUserDoc(email) ==
    IF get_firestore_db = None
    THEN IF email \in DOMAIN dev_users_db THEN dev_users_db[email] ELSE NoDoc
    ELSE IF UsersByEmail(email) # {}
         THEN users_collection[CHOOSE id \in UsersByEmail(email) : TRUE]
         ELSE NoDoc

\* auth.login
login ==
    /\ UNCHANGED <<gradeVars, statsVars, sysVars, concVars, videoVars, notifyVars, recentVars>>
    /\ UNCHANGED <<users_collection, dev_users_db, db_available, registered>>
    /\ \E email \in AuthEmails, password \in Passwords :
        LET user_doc == LoginUserDoc(email)
        IN  IF user_doc = NoDoc
            THEN auth_reply' = AuthReply("login", email, password, 401,
                                         [detail |-> "Incorrect email or password"])
            ELSE IF ~verify_password(password, user_doc.password_hash)
            THEN auth_reply' = AuthReply("login", email, password, 401,
                                         [detail |-> "Incorrect email or password"])
            ELSE auth_reply' = AuthReply("login", email, password, 200,
                                    [access_token |->
                                         create_access_token([sub |-> user_doc.email,
                                                              role |-> user_doc.role]),
                                     token_type |-> "bearer"])

\* the server process starts again (main.py runs uvicorn with reload=True):
\* importing auth.py makes dev_users_db empty, initialize_firebase succeeds
\* or fails, and the 'users' collection of the document store is kept
restart ==
    /\ UNCHANGED <<gradeVars, statsVars, sysVars, concVars, videoVars, notifyVars, recentVars>>
    /\ dev_users_db' = <<>>
    /\ db_available' \in BOOLEAN
    /\ auth_reply' = NoAuthReply
    /\ UNCHANGED <<users_collection, registered>>

\* a server that has just started, with or without the document store
InitAuth ==
    /\ SysIdle
    /\ GradeIdle
    /\ StatsIdle
    /\ ConcIdle
    /\ VideoIdle
    /\ NotifyIdle
    /\ RecentIdle
    /\ users_collection = <<>>
    /\ dev_users_db = <<>>
    /\ db_available \in BOOLEAN
    /\ registered = {}
    /\ auth_reply = NoAuthReply

NextAuth ==
    \/ register
    \/ login
    \/ restart

SpecAuth == InitAuth /\ [][NextAuth]_vars

\* C28: a login with the email and password of a register call that
\* succeeded returns 200 with a bearer token on which verify_token returns
\* that email, and a login with any other email or password returns 401 and
\* no token, whatever the availability of the document store has been.
C28_RegisteredCanLogIn ==
    auth_reply.op = "login" =>
        IF <<auth_reply.email, auth_reply.password>> \in registered
        THEN /\ auth_reply.status = 200
             /\ "access_token" \in DOMAIN auth_reply.body
             /\ auth_reply.body.token_type = "bearer"
             /\ verify_token(auth_reply.body.access_token).email = auth_reply.email
        ELSE /\ auth_reply.status = 401
             /\ "access_token" \notin DOMAIN auth_reply.body

====
